---------------------------- MODULE Spec2Model ----------------------------
(***************************************************************************)
(* Verification model of internal-file-viewer.                             *)
(*                                                                         *)
(*   SpecIndex  : utils/search_indexer.py, class SearchIndex               *)
(*   SpecViewer : ui/content_viewer.py, ContentViewer and FileLoadWorker   *)
(*   SpecConv   : utils/aspose_powerpoint_converter.py and                 *)
(*                utils/com_powerpoint_converter.py, convert_to_pdf        *)
(*   SpecEngine : the converters' global objects and their locks           *)
(*   SpecMain   : main.py, console login and console menu                  *)
(*   SpecWidget : ui/search_widget.py, SearchWidget and IndexingWorker,    *)
(*                with utils/search_indexer.py, class SearchIndexer        *)
(*   SpecFirstPass : one indexing pass with clear_index and content search *)
(*   SpecSearch : SearchWidget's search, sort and clear handlers           *)
(*   SpecIndexer : SearchIndexer's index_directory, add_file_to_index and  *)
(*                update_file_in_index                                     *)
(*   SpecPdf    : utils/pdf_handler.py, page rendering and page preview    *)
(*   SpecPpt    : utils/powerpoint_handler.py, the persistent connection   *)
(*   SpecBrowser : ui/file_browser.py, FileBrowser.set_root_path           *)
(*   SpecStop   : SearchIndexer.stop_indexing_process during the passes    *)
(*                                                                         *)
(* Text is a TLA+ string; a character is a string of length 1.  The input  *)
(* alphabet is ASCII, so the Hangul range of the tokenizer's character     *)
(* class and the Korean stop words are outside the inputs drawn here.      *)
(***************************************************************************)
EXTENDS Integers, Sequences, FiniteSets, TLC

VARIABLES
    index,        \* SearchIndex.index : token -> set of file paths
    file_info,    \* SearchIndex.file_info : file path -> record
    lastCall,     \* the SearchIndex method called last, with its arguments
    ret,          \* what that call returned
    current_file_path,  \* ContentViewer.current_file_path
    current_file_info,  \* ContentViewer.current_file_info
    load_worker,        \* ContentViewer.load_worker: 0 (None) or a worker
    workers,            \* the FileLoadWorker threads created so far
    events,             \* signals queued for the GUI event loop
    guiPc,              \* where the GUI thread is
    content_stack,      \* the page content_stack shows
    control_frame,      \* control_frame is visible
    open_file_button,   \* open_file_button is visible
    error_page,         \* the message error_page carries
    calls,              \* number of load_file calls made
    acted,              \* the notifications the viewer has acted on
    guiWork,            \* file work the GUI thread has done itself
    src,          \* presentation files on disk: path -> [exists, mtime]
    cache,        \* backend -> (cache key -> [size, mtime]): the cache folders
    now,          \* the wall clock, in days
    available,    \* backend -> is_available()
    engineCalls,  \* number of engine invocations so far
    convCall,     \* the converter operation performed last
    global_converter,  \* backend -> the module's global converter, or None
    lock_holder,       \* converter object -> thread holding its _lock
    thread,            \* thread -> where it is in a converter call
    mainPc,       \* where main() is: start, login, menu or exited
    attempt,      \* console_login: the loop variable
    session,      \* AuthenticationManager: the logged-in user, or None
    exit_status,  \* the status the process ended with, or None
    typed,        \* what was entered at the prompts, in order
    printed,      \* the closing messages printed
    handler_calls,      \* the handler operations invoked through a FileManager
    indexed_paths,      \* SearchIndexer.indexed_paths
    stop_indexing,      \* SearchIndexer.stop_indexing
    dir_exists,         \* os.path.exists of the directory offered for indexing
    current_directory,  \* SearchWidget.current_directory
    indexing_worker,    \* SearchWidget.indexing_worker: 0 (None) or a worker
    iworkers,           \* the IndexingWorker threads created so far
    wevents,            \* signals queued for the SearchWidget's slots
    index_button,       \* index_button is enabled
    progress_bar,       \* progress_bar: visible, value
    progress_label,     \* progress_label: visible, text
    results_label,      \* the text of results_label
    index_stats_label,  \* the text of index_stats_label: files, tokens
    wCall,              \* the SearchWidget method called last; turn flips
                        \* at every call
    widgetPc,           \* where the GUI thread is inside a SearchWidget method
    results_list,       \* the items of results_list, in order
    current_search_results,  \* SearchWidget.current_search_results
    current_sort_mode,  \* SearchWidget.current_sort_mode
    current_selected_file,  \* SearchWidget.current_selected_file
    open_buttons,       \* the enabled ones of SearchWidget's open buttons
    original_label,     \* ContentViewer.original_label: what it shows
    page_spin,          \* ContentViewer.page_spin: its value and maximum
    rendered_page,      \* number of the PDF page original_label shows, or 0
    pdf_call,           \* the PdfHandler method called last and its outcome
    current_ppt_app,    \* PowerPointHandler.current_ppt_app
    current_presentation,  \* PowerPointHandler.current_presentation
    ppt_file_path,      \* PowerPointHandler.current_file_path
    fast_render_cache,  \* PowerPointHandler.fast_render_cache: keys in order
    ppt_call,           \* the PowerPointHandler method called last, result
    path_exists,        \* os.path.exists: the paths that exist
    current_path,       \* FileBrowser.current_path
    path_label,         \* the text of FileBrowser.path_label
    info_label,         \* the text of FileBrowser.info_label
    root_index,         \* the path tree_view's root index stands for
    watched,            \* file_watcher.directories()
    browser_call        \* the FileBrowser method called last; turn flips at
                        \* every call

idxVars == <<index, file_info, lastCall, ret>>

viewVars == <<current_file_path, current_file_info, load_worker, workers,
              events, guiPc, content_stack, control_frame, open_file_button,
              error_page, calls, acted, guiWork, original_label, page_spin,
              rendered_page>>

convVars == <<src, cache, now, available, engineCalls, convCall>>

engVars == <<global_converter, lock_holder, thread>>

mainVars == <<mainPc, attempt, session, exit_status, typed, printed>>

fmVars == <<handler_calls>>

widgetVars == <<indexed_paths, stop_indexing, dir_exists, current_directory,
                indexing_worker, iworkers, wevents, index_button,
                progress_bar, progress_label, results_label,
                index_stats_label, wCall, widgetPc, results_list,
                current_search_results, current_sort_mode,
                current_selected_file, open_buttons>>

pdfVars == <<pdf_call>>

pptVars == <<current_ppt_app, current_presentation, ppt_file_path,
             fast_render_cache, ppt_call>>

browserVars == <<path_exists, current_path, path_label, info_label,
                 root_index, watched, browser_call>>

handlerVars == <<pdfVars, pptVars, browserVars>>

vars == <<idxVars, viewVars, convVars, engVars, mainVars, fmVars, widgetVars,
          handlerVars>>

-----------------------------------------------------------------------------
(* Bounds of the SearchIndex inputs *)

\* largest max_results passed to search
MaxMaxResults == 4

\* file paths offered to add_file / remove_file
Paths == {"d/ab.txt", "d/xy.md", "e/cd.log"}

\* file contents offered to add_file
Contents == {"ab cd", "The ABC-ef"}

\* file_info dictionaries offered to add_file
FileInfos == {[file_type |-> "text", file_size_mb |-> 1],
              [file_type |-> "pdf", file_size_mb |-> 2]}

\* queries offered to search
Queries == {"ab cd", "cd ef", "ef ab", "AB ab", " the a", "  "}

None == "None"

-----------------------------------------------------------------------------
(* Strings *)

Min(a, b) == IF a < b THEN a ELSE b

Max(a, b) == IF a > b THEN a ELSE b

CharAt(s, i) == SubSeq(s, i, i)

UpperLetters == "ABCDEFGHIJKLMNOPQRSTUVWXYZ"

LowerLetters == "abcdefghijklmnopqrstuvwxyz"

Digits == "0123456789"

Whitespace == {" ", "\t", "\n", "\r"}

CharsOf(alphabet) == {CharAt(alphabet, i) : i \in 1..Len(alphabet)}

UpperSet == CharsOf(UpperLetters)

\* the characters the tokenizer keeps (Hangul is outside the alphabet)
KeptSet == CharsOf(LowerLetters) \cup UpperSet \cup CharsOf(Digits) \cup Whitespace

LowerMap ==
    [c \in UpperSet |->
        CharAt(LowerLetters, CHOOSE i \in 1..26 : CharAt(UpperLetters, i) = c)]

\* str.lower() on one character
LowerChar(c) == IF c \in UpperSet THEN LowerMap[c] ELSE c

RECURSIVE MapChars(_, _, _)
MapChars(Op(_), s, i) ==
    IF i > Len(s) THEN "" ELSE Op(CharAt(s, i)) \o MapChars(Op, s, i + 1)

\* str.lower()
Lower(s) == MapChars(LowerChar, s, 1)

\* t in s  (substring test)
Contains(s, t) ==
    \E i \in 1..(Len(s) - Len(t) + 1) : SubSeq(s, i, i + Len(t) - 1) = t

\* s.startswith(t)
StartsWith(s, t) == Len(t) <= Len(s) /\ SubSeq(s, 1, Len(t)) = t

\* str.split(): the maximal runs of non-whitespace characters, in order
RECURSIVE SplitFrom(_, _, _)
SplitFrom(s, i, cur) ==
    IF i > Len(s)
    THEN IF cur = "" THEN <<>> ELSE <<cur>>
    ELSE IF CharAt(s, i) \in Whitespace
         THEN IF cur = "" THEN SplitFrom(s, i + 1, "")
                          ELSE <<cur>> \o SplitFrom(s, i + 1, "")
         ELSE SplitFrom(s, i + 1, cur \o CharAt(s, i))

Split(s) == SplitFrom(s, 1, "")

\* str.strip() leaves something
StripNonEmpty(s) == \E i \in 1..Len(s) : CharAt(s, i) \notin Whitespace

\* os.path.basename
RECURSIVE BasenameFrom(_, _)
BasenameFrom(p, i) ==
    IF i = 0 THEN p
    ELSE IF CharAt(p, i) = "/" THEN SubSeq(p, i + 1, Len(p))
    ELSE BasenameFrom(p, i - 1)

Basename(p) == BasenameFrom(p, Len(p))

Range(s) == {s[i] : i \in DOMAIN s}

-----------------------------------------------------------------------------
(* SearchIndex *)

\* the English part of _load_stop_words
stop_words ==
    {"a", "an", "and", "are", "as", "at", "be", "by", "for", "from",
     "has", "he", "in", "is", "it", "its", "of", "on", "that", "the",
     "to", "was", "will", "with", "or", "but", "if", "this", "they"}

\* re.sub(r'[^ga-hih a-zA-Z0-9\s]', ' ', c) on one character
CleanChar(c) == IF c \in KeptSet THEN c ELSE " "

MinTokenLen == 2

\* SearchIndex._tokenize: the list of tokens, duplicates kept
_tokenize(text) ==
    LET cleaned == MapChars(CleanChar, Lower(text), 1)
        Keep(token) == Len(token) >= MinTokenLen /\ token \notin stop_words
    IN SelectSeq(Split(cleaned), Keep)

PreviewLen == 200

\* the record add_file stores (indexed_time, a wall-clock stamp, is left out)
ContentPreview(content) == SubSeq(content, 1, Min(PreviewLen, Len(content)))

FileRecord(content, info) ==
    [file_type |-> info.file_type,
     file_size_mb |-> info.file_size_mb,
     content_preview |-> ContentPreview(content)]

\* remove_file that forgets to discard the path from the postings sets
RemovedIndex_KeepsPostings(idx, p) == idx

\* remove_file that discards the path but leaves emptied tokens in the map
RemovedIndex_KeepsEmptyTokens(idx, p) == [t \in DOMAIN idx |-> idx[t] \ {p}]

\* the index remove_file leaves: the path is discarded from every postings
\* set that holds it, and a token whose set became empty is deleted
RemovedIndex(idx, p) ==
    LET to_remove == {t \in DOMAIN idx : p \in idx[t] /\ idx[t] \ {p} = {}}
    IN [t \in (DOMAIN idx) \ to_remove |-> idx[t] \ {p}]

\* remove_file that forgets to delete the record
RemovedInfo_KeepsRecord(fi, p) == fi

\* the file_info remove_file leaves
RemovedInfo(fi, p) == [q \in (DOMAIN fi) \ {p} |-> fi[q]]

\* _tokenize over the texts the inputs are drawn from, evaluated once
QueryTokenTable == [q \in Queries |-> _tokenize(q)]

FileTokenTable ==
    [p \in Paths |->
        [c \in Contents |-> Range(_tokenize(Basename(p) \o " " \o c))]]

LowerNameTable == [p \in Paths |-> Lower(Basename(p))]

\* the tokens add_file posts the path under: those of "<filename> <content>"
FileTokens(p, content) == FileTokenTable[p][content]

\* add_file: the path is posted under each of its tokens
PostedIndex(idx, p, toks) ==
    [t \in (DOMAIN idx) \cup toks |->
        IF t \in toks
        THEN (IF t \in DOMAIN idx THEN idx[t] ELSE {}) \cup {p}
        ELSE idx[t]]

AddedIndex(idx, p, content) == PostedIndex(idx, p, FileTokens(p, content))

AddedInfo(fi, p, content, info) ==
    [q \in (DOMAIN fi) \cup {p} |->
        IF q = p THEN FileRecord(content, info) ELSE fi[q]]

\* every ordering of a set: list(a_set) yields its members in an order the
\* caller does not control
Orderings(S) ==
    {s \in [1..Cardinality(S) -> S] : \A x \in S : \E i \in DOMAIN s : s[i] = x}

\* the files one query token gathers: exact match, prefix or substring
MatchingFiles(idx, token) ==
    UNION {idx[t] : t \in {u \in DOMAIN idx :
                               \/ u = token
                               \/ StartsWith(u, token)
                               \/ Contains(u, token)}}

\* token_results as a sequence of sets, one per query token
TokenResults(idx, query_tokens) ==
    [i \in DOMAIN query_tokens |-> MatchingFiles(idx, query_tokens[i])]

RECURSIVE IntersectAll(_, _)
IntersectAll(sets, i) ==
    IF i = Len(sets) THEN sets[i] ELSE sets[i] \cap IntersectAll(sets, i + 1)

\* files matching every query token
AndSet(idx, query_tokens) == IntersectAll(TokenResults(idx, query_tokens), 1)

\* or_results: the union of token_results after the AND loop. The loop's
\* `result_files &= token_result` works in place on token_results[0], which
\* by then is the AND set itself
OrSet(idx, query_tokens) ==
    LET token_results == TokenResults(idx, query_tokens)
    IN AndSet(idx, query_tokens)
           \cup UNION {token_results[i] : i \in 2..Len(token_results)}

\* the test of search that decides the OR broadening
Broadens(and_files, max_results) ==
    Cardinality(and_files) < max_results \div 2

\* Scores are exact rationals held as integers: a score s is stored as
\* s * ScoreScale, and every postings count divides ScoreScale.
RECURSIVE Factorial(_)
Factorial(n) == IF n <= 1 THEN 1 ELSE n * Factorial(n - 1)

ScoreScale == Factorial(Cardinality(Paths))

FilenameBonus == 2

RECURSIVE RelevanceFrom(_, _, _, _)
RelevanceFrom(idx, filename, query_tokens, i) ==
    IF i > Len(query_tokens) THEN 0
    ELSE LET token == query_tokens[i]
             name == IF Contains(filename, token)
                     THEN FilenameBonus * ScoreScale ELSE 0
             rarity == IF token \in DOMAIN idx /\ Cardinality(idx[token]) > 0
                       THEN ScoreScale \div Cardinality(idx[token]) ELSE 0
         IN name + rarity + RelevanceFrom(idx, filename, query_tokens, i + 1)

\* SearchIndex._calculate_relevance
_calculate_relevance(idx, fi, file_path, query_tokens) ==
    IF file_path \notin DOMAIN fi THEN 0
    ELSE RelevanceFrom(idx,
                       IF file_path \in Paths THEN LowerNameTable[file_path]
                       ELSE Lower(Basename(file_path)),
                       query_tokens, 1)

\* re.sub of one (lower-case) token, ignoring case, by **token**: the
\* leftmost non-overlapping matches, found on the lower-cased text
RECURSIVE SubAllFrom(_, _, _, _)
SubAllFrom(text, lowered, token, i) ==
    IF i > Len(text) THEN ""
    ELSE IF /\ i + Len(token) - 1 <= Len(text)
            /\ SubSeq(lowered, i, i + Len(token) - 1) = token
         THEN "**" \o token \o "**"
                  \o SubAllFrom(text, lowered, token, i + Len(token))
         ELSE CharAt(text, i) \o SubAllFrom(text, lowered, token, i + 1)

SubAll(text, token) == SubAllFrom(text, Lower(text), token, 1)

\* SearchIndex._highlight_matches
RECURSIVE _highlight_matches(_, _, _)
_highlight_matches(text, query_tokens, i) ==
    IF i > Len(query_tokens) THEN text
    ELSE _highlight_matches(SubAll(text, query_tokens[i]), query_tokens, i + 1)

\* an insertion that puts a later record ahead of earlier ones of equal score
RECURSIVE InsertByScore_TiesReversed(_, _)
InsertByScore_TiesReversed(sorted, r) ==
    IF sorted = <<>> THEN <<r>>
    ELSE IF Head(sorted).relevance_score > r.relevance_score
         THEN <<Head(sorted)>> \o InsertByScore_TiesReversed(Tail(sorted), r)
         ELSE <<r>> \o sorted

\* list.sort(key=score, reverse=True): descending and stable
RECURSIVE InsertByScore(_, _)
InsertByScore(sorted, r) ==
    IF sorted = <<>> THEN <<r>>
    ELSE IF Head(sorted).relevance_score >= r.relevance_score
         THEN <<Head(sorted)>> \o InsertByScore(Tail(sorted), r)
         ELSE <<r>> \o sorted

RECURSIVE SortByScore(_, _)
SortByScore(rs, i) ==
    IF i = 0 THEN <<>> ELSE InsertByScore(SortByScore(rs, i - 1), rs[i])

\* the list search builds before scoring, given the orders in which the
\* AND set and the OR-only set were listed
Candidates(and_order, or_order, max_results) ==
    LET listed == IF Broadens(Range(and_order), max_results)
                  THEN and_order \o or_order ELSE and_order
    IN SubSeq(listed, 1, Min(Max(max_results, 0), Len(listed)))

\* _highlight_matches over the previews and queries the inputs are drawn
\* from, evaluated once
HighlightTable ==
    [pv \in {ContentPreview(c) : c \in Contents} |->
        [q \in Queries |-> _highlight_matches(pv, QueryTokenTable[q], 1)]]

SearchResultRecord(idx, fi, p, query) ==
    [file_path |-> p,
     filename |-> Basename(p),
     file_type |-> fi[p].file_type,
     file_size_mb |-> fi[p].file_size_mb,
     preview |-> HighlightTable[fi[p].content_preview][query],
     relevance_score |->
         _calculate_relevance(idx, fi, p, QueryTokenTable[query])]

\* SearchIndex.search, from the candidate list on
SearchResults(idx, fi, query, and_order, or_order, max_results) ==
    LET cands == Candidates(and_order, or_order, max_results)
        InInfo(p) == p \in DOMAIN fi
        known == SelectSeq(cands, InInfo)
        recs == [i \in DOMAIN known |->
                    SearchResultRecord(idx, fi, known[i], query)]
    IN SortByScore(recs, Len(recs))

\* SearchIndex._get_file_type_distribution
_get_file_type_distribution(fi) ==
    LET types == {fi[p].file_type : p \in DOMAIN fi}
    IN [t \in types |-> Cardinality({p \in DOMAIN fi : fi[p].file_type = t})]

-----------------------------------------------------------------------------
(* SearchIndex operations *)

\* the preview held for a path when a call began (kept with lastCall)
PreviewOf(fi, p) == IF p \in DOMAIN fi THEN fi[p].content_preview ELSE None

InitIndexVars ==
    /\ index = <<>>
    /\ file_info = <<>>
    /\ lastCall = [op |-> "init"]
    /\ ret = None

\* add_file(file_path, content, file_info): remove_file, then store and post
add_file(p, content, info) ==
    /\ index' = AddedIndex(RemovedIndex(index, p), p, content)
    /\ file_info' = AddedInfo(RemovedInfo(file_info, p), p, content, info)
    /\ lastCall' = [op |-> "add_file", file_path |-> p, content |-> content,
                    info |-> info, previous |-> PreviewOf(file_info, p)]
    /\ ret' = None

\* remove_file(file_path)
remove_file(p) ==
    /\ index' = RemovedIndex(index, p)
    /\ file_info' = RemovedInfo(file_info, p)
    /\ lastCall' = [op |-> "remove_file", file_path |-> p,
                    previous |-> PreviewOf(file_info, p)]
    /\ ret' = None

\* search(query, max_results)
search(query, max_results) ==
    LET query_tokens == QueryTokenTable[query]
    IN /\ lastCall' = [op |-> "search", query |-> query,
                       max_results |-> max_results]
       /\ UNCHANGED <<index, file_info>>
       /\ IF ~StripNonEmpty(query) \/ query_tokens = <<>>
          THEN ret' = <<>>
          ELSE LET and_files == AndSet(index, query_tokens)
                   or_only == OrSet(index, query_tokens) \ and_files
               IN \E and_order \in Orderings(and_files),
                     or_order \in Orderings(or_only) :
                     ret' = SearchResults(index, file_info, query,
                                          and_order, or_order, max_results)

\* what get_statistics returns; the average is the pair
\* <<numerator, denominator>>
Statistics(idx, fi) ==
    [total_files |-> Cardinality(DOMAIN fi),
     total_tokens |-> Cardinality(DOMAIN idx),
     average_tokens_per_file |->
         <<Cardinality(DOMAIN idx), Max(Cardinality(DOMAIN fi), 1)>>,
     file_types |-> _get_file_type_distribution(fi)]

\* get_statistics()
get_statistics ==
    /\ lastCall' = [op |-> "get_statistics"]
    /\ ret' = Statistics(index, file_info)
    /\ UNCHANGED <<index, file_info>>

-----------------------------------------------------------------------------
(* ContentViewer and FileLoadWorker *)

\* largest number of load_file calls in a behaviour
MaxLoads == 2

\* The files offered to load_file, with what the file system and the
\* FileManager answer for each: os.path.exists, get_file_info()['supported'],
\* get_file_type(), the page count, and whether a handler raises while the
\* worker loads the file.
ViewFiles == {"a.pdf", "b.txt", "c.xyz", "gone.pdf", "bad.docx", "torn.pdf"}

\* further files of the indexed directory: a workbook, a presentation and a
\* second document whose text extraction raises
OtherFiles == {"s.xlsx", "p.pptx", "Bee.docx"}

FileTable ==
    [f \in ViewFiles \cup OtherFiles |->
        CASE f = "a.pdf"    -> [exists |-> TRUE, supported |-> TRUE,
                                file_type |-> "pdf", page_count |-> 3,
                                raises |-> FALSE, renders |-> TRUE]
          [] f = "torn.pdf" -> [exists |-> TRUE, supported |-> TRUE,
                                file_type |-> "pdf", page_count |-> 2,
                                raises |-> FALSE, renders |-> FALSE]
          [] f = "b.txt"    -> [exists |-> TRUE, supported |-> TRUE,
                                file_type |-> "text", page_count |-> 0,
                                raises |-> FALSE, renders |-> FALSE]
          [] f = "c.xyz"    -> [exists |-> TRUE, supported |-> FALSE,
                                file_type |-> "", page_count |-> 0,
                                raises |-> FALSE, renders |-> FALSE]
          [] f = "gone.pdf" -> [exists |-> FALSE, supported |-> FALSE,
                                file_type |-> "", page_count |-> 0,
                                raises |-> FALSE, renders |-> FALSE]
          [] f = "s.xlsx"   -> [exists |-> TRUE, supported |-> TRUE,
                                file_type |-> "excel", page_count |-> 0,
                                raises |-> FALSE, renders |-> FALSE]
          [] f = "p.pptx"   -> [exists |-> TRUE, supported |-> TRUE,
                                file_type |-> "powerpoint", page_count |-> 1,
                                raises |-> FALSE, renders |-> FALSE]
          [] f \in {"bad.docx", "Bee.docx"} ->
                               [exists |-> TRUE, supported |-> TRUE,
                                file_type |-> "word", page_count |-> 0,
                                raises |-> TRUE, renders |-> FALSE]]

NoInfo == [filename |-> "", file_type |-> "", page_count |-> 0]

TextTypes == {"text", "Plain Text", "Markdown", "Log File", "Text File"}

\* FileLoadWorker.run: the one signal a run emits, <<signal, argument>>
WorkerSignal(file_path) ==
    LET f == FileTable[file_path]
    IN IF ~f.supported
       THEN [signal |-> "load_error", message |-> "unsupported", info |-> NoInfo]
       ELSE IF f.raises
       THEN [signal |-> "load_error", message |-> "exception", info |-> NoInfo]
       ELSE [signal |-> "load_completed", message |-> "",
             info |-> [filename |-> file_path, file_type |-> f.file_type,
                       page_count |-> f.page_count]]

\* FileLoadWorker.run: the handler operations it invokes for a file type,
\* in order
WorkerOps(file_type) ==
    CASE file_type = "pdf" -> <<"get_preview_data", "extract_text">>
      [] file_type = "excel" -> <<"get_preview_data">>
      [] file_type \in {"word", "powerpoint"} ->
             <<"get_preview_data", "extract_text">>
      [] file_type \in TextTypes -> <<"get_preview", "get_metadata">>
      [] OTHER -> <<>>

\* the handler calls one run makes: none before the supported check, and
\* none after a handler has raised
WorkerCalls(file_path) ==
    LET f == FileTable[file_path]
        ops == WorkerOps(f.file_type)
        made == IF ~f.supported THEN <<>>
                ELSE IF f.raises THEN SubSeq(ops, 1, 1) ELSE ops
    IN {[by |-> "FileLoadWorker", op |-> made[i], file_path |-> file_path] :
            i \in DOMAIN made}

\* run() without its except clause: a handler's exception ends the thread
\* and nothing is emitted
WorkerEmits_NoExcept(w, evs) ==
    IF FileTable[workers[w].file_path].supported
           /\ FileTable[workers[w].file_path].raises
    THEN evs
    ELSE Append(evs, [sender |-> w] @@ WorkerSignal(workers[w].file_path))

\* FileLoadWorker.run emits from the worker thread to a slot of a GUI-thread
\* object: the delivery is queued on the GUI event loop
WorkerEmits(w, evs) ==
    Append(evs, [sender |-> w] @@ WorkerSignal(workers[w].file_path))

\* QThread.wait() returns at once
MustWait_Never(w) == FALSE

\* QThread.wait(): the caller is blocked until the thread has finished
MustWait(w) == workers[w].state # "finished"

\* ContentViewer.show_error
show_error(message) ==
    /\ error_page' = message
    /\ content_stack' = "error_page"
    /\ control_frame' = FALSE

\* the file work on_file_loaded does on the GUI thread, by file type
ViewerSetupWork(info) ==
    CASE info.file_type = "pdf" -> {"render_page_to_image"}
      [] info.file_type = "image" -> {"QPixmap"}
      [] info.file_type \in TextTypes -> {"read_file_content"}
      [] OTHER -> {}

\* the handler calls among that work: they are made on current_file_path
ViewerCalls(info, file_path) ==
    {[by |-> "ContentViewer", op |-> o, file_path |-> file_path] :
        o \in ViewerSetupWork(info) \ {"QPixmap"}}

\* the largest page_count of the files
MaxPageCount == 3

\* the maximum of a QSpinBox that has been given none
spinMaximum == 99

\* ContentViewer.render_pdf_page: what original_label shows afterwards; a
\* page that cannot be rendered leaves the failure text in the label
render_pdf_page(file_path) ==
    IF FileTable[file_path].renders THEN "pixmap" ELSE "render failed"

\* the number of the page original_label shows after
\* render_pdf_page(file_path, page_num), page_num counted from 0; 0 when it
\* shows the failure text
PageRendered(file_path, page_num) ==
    IF FileTable[file_path].renders
           /\ page_num < FileTable[file_path].page_count
    THEN page_num + 1 ELSE 0

\* QSpinBox.setMaximum: a value above the new maximum becomes the maximum
setMaximum(spin, maximum) ==
    [value |-> Min(spin.value, maximum), maximum |-> maximum]

\* the page on_file_loaded ends on, by file type
ViewerPage(info) ==
    CASE info.file_type = "pdf" -> "document_viewer"
      [] info.file_type = "image" -> "image_viewer"
      [] info.file_type = "excel" -> "table_viewer"
      [] info.file_type \in {"word", "powerpoint"} -> "document_viewer"
      [] info.file_type \in TextTypes -> "text_viewer"
      [] OTHER -> "error_page"

\* ContentViewer.on_file_loaded
on_file_loaded(info) ==
    /\ current_file_info' = info
    /\ open_file_button' = TRUE
    /\ guiWork' = guiWork \cup ViewerSetupWork(info)
    /\ handler_calls' = handler_calls \cup ViewerCalls(info, current_file_path)
    /\ content_stack' = ViewerPage(info)
    /\ control_frame' = IF info.file_type = "pdf" /\ info.page_count > 1
                        THEN TRUE
                        ELSE IF info.file_type \in {"word", "powerpoint"}
                             THEN control_frame ELSE FALSE
    /\ error_page' = IF ViewerPage(info) = "error_page"
                     THEN "unsupported type" ELSE error_page
    /\ original_label' = IF info.file_type = "pdf"
                         THEN render_pdf_page(current_file_path)
                         ELSE IF info.file_type \in {"word", "powerpoint"}
                              THEN "description" ELSE original_label
    \* setup_pdf_viewer: render_pdf_page(current_file_path, 0), then
    \* page_spin.setMaximum(page_count) when page_count > 1; a value that
    \* setMaximum lowers emits valueChanged, and on_page_changed renders it
    /\ page_spin' = IF info.file_type = "pdf" /\ info.page_count > 1
                    THEN setMaximum(page_spin, info.page_count)
                    ELSE page_spin
    /\ rendered_page' =
           IF info.file_type = "pdf"
           THEN IF page_spin'.value # page_spin.value
                THEN PageRendered(current_file_path, page_spin'.value - 1)
                ELSE PageRendered(current_file_path, 0)
           ELSE IF info.file_type \in {"word", "powerpoint"}
                THEN 0 ELSE rendered_page

\* ContentViewer.on_page_changed, the slot of page_spin.valueChanged: the
\* user sets the page selector, which is visible, to page_num
on_page_changed(page_num) ==
    /\ guiPc = "idle"
    /\ control_frame
    /\ page_num \in 1..page_spin.maximum
    /\ page_num # page_spin.value
    /\ page_spin' = [page_spin EXCEPT !.value = page_num]
    /\ IF current_file_path # "" /\ current_file_info # NoInfo
          /\ current_file_info.file_type = "pdf"
       THEN /\ rendered_page' = PageRendered(current_file_path, page_num - 1)
            /\ original_label' =
                   IF rendered_page' # 0 THEN "pixmap" ELSE "render failed"
            /\ guiWork' = guiWork \cup {"render_page_to_image"}
            /\ handler_calls' = handler_calls \cup
                   {[by |-> "ContentViewer", op |-> "render_page_to_image",
                     file_path |-> current_file_path]}
       ELSE UNCHANGED <<rendered_page, original_label, guiWork,
                        handler_calls>>
    /\ UNCHANGED <<current_file_path, current_file_info, load_worker,
                   workers, events, guiPc, content_stack, control_frame,
                   open_file_button, error_page, calls, acted>>

\* the tail of load_file: create, connect and start the new worker
StartWorker(ws, file_path, call) ==
    /\ workers' = Append(ws, [file_path |-> file_path, state |-> "running",
                              quit_requested |-> FALSE, call |-> call])
    /\ load_worker' = Len(ws) + 1
    /\ guiPc' = "idle"

\* load_worker.quit(): run() is overridden and starts no event loop, so the
\* request is recorded and nothing reads it
QuitRequested(ws, w) == [ws EXCEPT ![w].quit_requested = TRUE]

\* ContentViewer.load_file up to wait(): the GUI thread is idle, takes the
\* call and either finishes it or blocks in load_worker.wait()
load_file(file_path) ==
    /\ guiPc = "idle"
    /\ calls < MaxLoads
    /\ calls' = calls + 1
    /\ UNCHANGED handler_calls
    /\ IF ~FileTable[file_path].exists
       THEN /\ show_error("not found")
            /\ acted' = acted \cup {[call |-> calls', signal |-> "not_found",
                                     latest |-> calls']}
            /\ UNCHANGED <<current_file_path, current_file_info, load_worker,
                           workers, events, guiPc, open_file_button, guiWork>>
            /\ UNCHANGED <<original_label, page_spin, rendered_page>>
       ELSE /\ current_file_path' = file_path
            /\ content_stack' = "loading_page"
            /\ control_frame' = FALSE
            /\ open_file_button' = FALSE
            /\ UNCHANGED <<current_file_info, error_page, acted, events,
                           original_label, page_spin,
                   rendered_page>>
            /\ IF load_worker = 0
               THEN /\ StartWorker(workers, file_path, calls')
                    /\ UNCHANGED guiWork
               ELSE IF MustWait(load_worker)
                    THEN /\ workers' = QuitRequested(workers, load_worker)
                         /\ guiPc' = "load_file_wait"
                         /\ guiWork' = guiWork \cup {"load_worker.wait"}
                         /\ UNCHANGED load_worker
                    ELSE /\ StartWorker(QuitRequested(workers, load_worker),
                                        file_path, calls')
                         /\ UNCHANGED guiWork

\* load_file after wait(): the old worker has finished, the new one starts
load_file_resume ==
    /\ guiPc = "load_file_wait"
    /\ ~MustWait(load_worker)
    /\ StartWorker(workers, current_file_path, calls)
    /\ UNCHANGED <<current_file_path, current_file_info, events, content_stack,
                   control_frame, open_file_button, error_page, calls, acted,
                   guiWork, handler_calls, original_label, page_spin,
                   rendered_page>>

\* FileLoadWorker.run on thread w, up to and including its emit
worker_run(w) ==
    /\ workers[w].state = "running"
    /\ events' = WorkerEmits(w, events)
    /\ workers' = [workers EXCEPT ![w].state = "emitted"]
    /\ handler_calls' = handler_calls \cup WorkerCalls(workers[w].file_path)
    /\ UNCHANGED <<current_file_path, current_file_info, load_worker, guiPc,
                   content_stack, control_frame, open_file_button, error_page,
                   calls, acted, guiWork, original_label, page_spin,
                   rendered_page>>

\* run() returns and thread w finishes
worker_exit(w) ==
    /\ workers[w].state = "emitted"
    /\ workers' = [workers EXCEPT ![w].state = "finished"]
    /\ UNCHANGED <<current_file_path, current_file_info, load_worker, events,
                   guiPc, content_stack, control_frame, open_file_button,
                   error_page, calls, acted, guiWork, handler_calls,
                   original_label, page_spin,
                   rendered_page>>

\* the GUI event loop delivers the next queued signal to its slot
deliver_event ==
    /\ guiPc = "idle"
    /\ events # <<>>
    /\ LET e == Head(events)
       IN /\ events' = Tail(events)
          /\ acted' = acted \cup {[call |-> workers[e.sender].call,
                                   signal |-> e.signal, latest |-> calls]}
          /\ IF e.signal = "load_completed"
             THEN on_file_loaded(e.info)
             ELSE /\ show_error(e.message)
                  /\ UNCHANGED <<current_file_info, open_file_button, guiWork,
                                 handler_calls, original_label, page_spin,
                   rendered_page>>
    /\ UNCHANGED <<current_file_path, load_worker, workers, guiPc, calls>>

InitViewVars ==
    /\ current_file_path = ""
    /\ current_file_info = NoInfo
    /\ load_worker = 0
    /\ workers = <<>>
    /\ events = <<>>
    /\ guiPc = "idle"
    /\ content_stack = "empty_page"
    /\ control_frame = FALSE
    /\ open_file_button = FALSE
    /\ error_page = ""
    /\ calls = 0
    /\ acted = {}
    /\ guiWork = {}
    /\ original_label = ""
    /\ page_spin = [value |-> 1, maximum |-> spinMaximum]
    /\ rendered_page = 0
    /\ handler_calls = {}

-----------------------------------------------------------------------------
(* Conversion backends: AsposePowerPointConverter, ComPowerPointConverter *)

\* last day of the clock
MaxNow == 12

\* days that pass between two looks at the clock
TickDays == 4

\* largest number of engine invocations in a behaviour
MaxEngineCalls == 3

Backends == {"aspose", "com"}

\* presentation paths offered to convert_to_pdf
ConvFiles == {"p.pptx", "missing.pptx"}

\* sizes, in MiB, of the files an engine writes
OutputSizes == {400, 700}

\* what one engine invocation does: writes a non-empty file, writes an empty
\* file, writes nothing, raises after writing nothing, raises after writing
\* output that is then unlinked, or raises after writing output whose unlink
\* fails
EngineOutcomes ==
    {"ok", "empty", "nofile", "raise", "raise_partial", "raise_locked"}

\* the outcomes that leave a file of some size at the cache path
Leaves == {"ok", "raise_locked"}

\* cache_max_size, in MiB: 1024 * 1024 * 1024 bytes
CacheMaxSizeMiB == 1024

\* cache_max_age, in days
CacheMaxAgeDays == 7

NoPath == <<>>

\* _get_cache_key: sha1 of "<abs_path>_<mtime>", held as the pair it hashes
\* (two different pairs give two different keys)
_get_cache_key(file_path, mtime) == <<file_path, mtime>>

\* _get_cached_pdf_path: <cache_dir>/<key>.pdf, held as <<backend, key>>
_get_cached_pdf_path(b, file_path) ==
    <<b, _get_cache_key(file_path, src[file_path].mtime)>>

\* cached_pdf.exists()
CacheHit(c, key) == key \in DOMAIN c

TotalSize(c, keys) ==
    LET RECURSIVE Sum(_)
        Sum(S) == IF S = {} THEN 0
                  ELSE LET k == CHOOSE x \in S : TRUE
                       IN c[k].size + Sum(S \ {k})
    IN Sum(keys)

\* files_with_time.sort(key=mtime): ascending and stable, on a glob order
RECURSIVE InsertByMtime(_, _, _)
InsertByMtime(c, sorted, k) ==
    IF sorted = <<>> THEN <<k>>
    ELSE IF c[Head(sorted)].mtime <= c[k].mtime
         THEN <<Head(sorted)>> \o InsertByMtime(c, Tail(sorted), k)
         ELSE <<k>> \o sorted

\* the list left in glob order
SortByMtime_GlobOrder(c, order, i) == order

RECURSIVE SortByMtime(_, _, _)
SortByMtime(c, order, i) ==
    IF i = 0 THEN <<>>
    ELSE InsertByMtime(c, SortByMtime(c, order, i - 1), order[i])

\* the size loop of _cleanup_cache: unlink in list order until the total is
\* at most 80% of the limit. An unlink of a file in `locked` raises, which
\* ends the whole routine in its except clause. Returns the keys unlinked
\* and whether an unlink raised.
RECURSIVE EvictForSize(_, _, _, _, _)
EvictForSize(c, files, i, total_size, locked) ==
    IF i > Len(files) \/ total_size * 10 <= CacheMaxSizeMiB * 8
    THEN [deleted |-> {}, raised |-> FALSE]
    ELSE IF files[i] \in locked
    THEN [deleted |-> {}, raised |-> TRUE]
    ELSE LET rest == EvictForSize(c, files, i + 1,
                                  total_size - c[files[i]].size, locked)
         IN [deleted |-> {files[i]} \cup rest.deleted,
             raised |-> rest.raised]

\* the age loop of _cleanup_cache over the same list: unlink every file still
\* present whose modification time is before the cutoff
RECURSIVE EvictForAge(_, _, _, _, _, _)
EvictForAge(c, files, i, gone, locked, today) ==
    IF i > Len(files) THEN [deleted |-> {}, raised |-> FALSE]
    ELSE IF files[i] \notin gone /\ c[files[i]].mtime < today - CacheMaxAgeDays
    THEN IF files[i] \in locked
         THEN [deleted |-> {}, raised |-> TRUE]
         ELSE LET rest == EvictForAge(c, files, i + 1, gone, locked, today)
              IN [deleted |-> {files[i]} \cup rest.deleted,
                  raised |-> rest.raised]
    ELSE EvictForAge(c, files, i + 1, gone, locked, today)

\* the record kept of a call that ran no cleanup
NoCleanup == [over |-> FALSE, for_size |-> {}, for_age |-> {},
              raised |-> FALSE]

\* one run of _cleanup_cache on a cache folder whose glob lists the files in
\* `order`: what it unlinked in each loop and whether an unlink raised
CleanupRun(c, order, locked, today) ==
    LET total_size == TotalSize(c, DOMAIN c)
        over == total_size > CacheMaxSizeMiB
        files == IF over THEN SortByMtime(c, order, Len(order)) ELSE order
        by_size == IF over THEN EvictForSize(c, files, 1, total_size, locked)
                   ELSE [deleted |-> {}, raised |-> FALSE]
        by_age == IF by_size.raised THEN [deleted |-> {}, raised |-> FALSE]
                  ELSE EvictForAge(c, files, 1, by_size.deleted, locked,
                                   today)
    IN [over |-> over, for_size |-> by_size.deleted,
        for_age |-> by_age.deleted,
        raised |-> by_size.raised \/ by_age.raised]

\* the cache folder _cleanup_cache leaves
_cleanup_cache(c, order, locked, today) ==
    LET run == CleanupRun(c, order, locked, today)
    IN [k \in (DOMAIN c) \ (run.for_size \cup run.for_age) |-> c[k]]

\* the cache folder after the engine ran on a miss and the checks that follow
AfterEngine(c, key, outcome, size, today) ==
    CASE outcome = "ok" -> [k \in (DOMAIN c) \cup {key} |->
                               IF k = key THEN [size |-> size, mtime |-> today]
                               ELSE c[k]]
      [] outcome = "empty" -> [k \in (DOMAIN c) \cup {key} |->
                               IF k = key THEN [size |-> 0, mtime |-> today]
                               ELSE c[k]]
      [] outcome = "raise_locked" -> [k \in (DOMAIN c) \cup {key} |->
                               IF k = key THEN [size |-> size, mtime |-> today]
                               ELSE c[k]]
      [] OTHER -> c

\* convert_to_pdf of backend b; on a miss the glob lists the cache in `order`,
\* the files in `locked` cannot be unlinked,
\* and the engine does `outcome`, writing `size` MiB
convert_to_pdf(b, file_path, order, locked, outcome, size) ==
    LET key == _get_cache_key(file_path, src[file_path].mtime)
        Returns(result, engine, cleanup) ==
            convCall' = [op |-> "convert_to_pdf", backend |-> b,
                         file_path |-> file_path, result |-> result,
                         engine |-> engine, cleanup |-> cleanup,
                         mtime |-> src[file_path].mtime,
                         cleaned |-> IF cleanup
                                     THEN CleanupRun(cache[b], order, locked,
                                                     now)
                                     ELSE NoCleanup,
                         locked |-> IF cleanup
                                       /\ CleanupRun(cache[b], order, locked,
                                                     now).raised
                                    THEN locked ELSE {}]
    IN /\ UNCHANGED <<src, now, available>>
       /\ IF ~available[b] \/ ~src[file_path].exists
          THEN /\ Returns(NoPath, FALSE, FALSE)
               /\ UNCHANGED <<cache, engineCalls>>
          ELSE IF CacheHit(cache[b], key)
          THEN /\ Returns(_get_cached_pdf_path(b, file_path), FALSE, FALSE)
               /\ UNCHANGED <<cache, engineCalls>>
          ELSE /\ engineCalls < MaxEngineCalls
               /\ engineCalls' = engineCalls + 1
               /\ cache' = [cache EXCEPT ![b] =
                     AfterEngine(_cleanup_cache(cache[b], order, locked, now),
                                 key, outcome, size, now)]
               /\ Returns(IF outcome = "ok"
                          THEN _get_cached_pdf_path(b, file_path) ELSE NoPath,
                          TRUE, TRUE)

\* the user saves the presentation: its modification time becomes now
touch_file(file_path) ==
    /\ src[file_path].exists
    /\ src[file_path].mtime < now
    /\ src' = [src EXCEPT ![file_path].mtime = now]
    /\ UNCHANGED <<cache, now, available, engineCalls, convCall>>

\* days pass
tick ==
    /\ now + TickDays <= MaxNow
    /\ now' = now + TickDays
    /\ UNCHANGED <<src, cache, available, engineCalls, convCall>>

InitConvVars ==
    /\ src = [f \in ConvFiles |->
                 [exists |-> f # "missing.pptx", mtime |-> 0]]
    /\ cache = [b \in Backends |-> <<>>]
    /\ now = 0
    /\ available \in [Backends -> BOOLEAN]
    /\ engineCalls = 0
    /\ convCall = [op |-> "init"]

-----------------------------------------------------------------------------
(* Threads inside the converters: the global instances, the per-object     *)
(* _lock and the engine and automation-host operations                     *)

Threads == {"t1", "t2"}

\* a converter object is named by its class and the thread that built it
Converters == Backends \X Threads

\* the steps inside `with self._lock`:
\*   aspose: Presentation(path) load, presentation.save
\*   com: CreateObject, Presentations.Open, SaveAs
LockedOps == [aspose |-> <<"load", "save">>,
              com |-> <<"CreateObject", "Open", "SaveAs">>]

IdleThread == [pc |-> "idle", conv |-> None, step |-> 0,
               ppt_app |-> FALSE, presentation |-> FALSE,
               app_running |-> FALSE, presentation_open |-> FALSE,
               called |-> {}, output |-> {}, cache_hit |-> FALSE]

\* what a thread keeps when a call ends: the files its conversions have put
\* into the cache folders stay there
AfterCall(me) == [IdleThread EXCEPT !.output = me.output]

\* the step of the with block in which the engine writes the PDF: save for
\* aspose, SaveAs for com
Saving(me) ==
    /\ me.pc = "locked"
    /\ me.step = Len(LockedOps[me.conv[1]])

\* cached_pdf.exists() for the one presentation the threads convert: some
\* engine has created the file in the backend's cache folder
CachedPdfExists(b) == \E u \in Threads : b \in thread[u].output

\* get_aspose_converter / get_com_converter, first half: read the global
get_converter(t, b) ==
    /\ thread[t].pc = "idle"
    /\ thread' = [thread EXCEPT ![t] =
          IF global_converter[b] = None
          THEN [AfterCall(thread[t]) EXCEPT !.pc = "construct",
                                            !.conv = <<b, t>>]
          ELSE [AfterCall(thread[t]) EXCEPT !.pc = "cache_check",
                                       !.conv = global_converter[b]]]
    /\ UNCHANGED <<global_converter, lock_holder>>

\* second half: build the converter, with its own Lock, and store it
construct_global(t) ==
    /\ thread[t].pc = "construct"
    /\ global_converter' =
           [global_converter EXCEPT ![thread[t].conv[1]] = thread[t].conv]
    /\ thread' = [thread EXCEPT ![t].pc = "cache_check"]
    /\ UNCHANGED lock_holder

\* convert_to_pdf up to the lock: `if cached_pdf.exists(): return
\* str(cached_pdf)`, made before and outside `with self._lock`
cache_check(t) ==
    LET b == thread[t].conv[1]
    IN /\ thread[t].pc = "cache_check"
       /\ thread' = [thread EXCEPT ![t] =
             IF CachedPdfExists(b)
             THEN [@ EXCEPT !.pc = "returned", !.cache_hit = TRUE]
             ELSE [@ EXCEPT !.pc = "lock_wait"]]
       /\ UNCHANGED <<global_converter, lock_holder>>

\* during save / SaveAs the engine creates the file at cached_pdf, the path
\* it was given, some time before the call returns
engine_writes(t) ==
    LET me == thread[t]
    IN /\ Saving(me)
       /\ me.conv[1] \notin me.output
       /\ thread' = [thread EXCEPT ![t].output = @ \cup {me.conv[1]}]
       /\ UNCHANGED <<global_converter, lock_holder>>

\* `with self._lock:` entered
acquire(t) ==
    /\ thread[t].pc = "lock_wait"
    /\ lock_holder[thread[t].conv] = None
    /\ lock_holder' = [lock_holder EXCEPT ![thread[t].conv] = t]
    /\ thread' = [thread EXCEPT ![t].pc = "locked", ![t].step = 1]

\* one operation inside the with block returns or raises; leaving the block
\* either way releases the lock
locked_op(t, raises) ==
    LET me == thread[t]
        b == me.conv[1]
        op == LockedOps[b][me.step]
        last == me.step = Len(LockedOps[b])
        after == [me EXCEPT
                    !.ppt_app = @ \/ (op = "CreateObject" /\ ~raises),
                    !.app_running = @ \/ (op = "CreateObject" /\ ~raises),
                    !.presentation = @ \/ (op = "Open" /\ ~raises),
                    !.presentation_open = @ \/ (op = "Open" /\ ~raises),
                    !.output = IF last /\ ~raises THEN @ \cup {b} ELSE @]
        \* except Exception: if cached_pdf.exists(): cached_pdf.unlink()
        unlinked == [u \in Threads |->
                        [(IF u = t THEN after ELSE thread[u])
                            EXCEPT !.output = IF raises THEN @ \ {b} ELSE @]]
    IN /\ me.pc = "locked"
       /\ IF raises \/ last
          THEN /\ lock_holder' = [lock_holder EXCEPT ![me.conv] = None]
               /\ thread' = [unlinked EXCEPT ![t] =
                     IF b = "com" THEN [@ EXCEPT !.pc = "finally_close"]
                     ELSE AfterCall(@)]
          ELSE /\ thread' = [thread EXCEPT ![t] =
                     [after EXCEPT !.step = me.step + 1]]
               /\ UNCHANGED lock_holder
       /\ UNCHANGED global_converter

\* a finally block in which an exception of Close skips what follows
finally_close_Propagates(t, raises) ==
    /\ thread[t].pc = "finally_close"
    /\ thread' = [thread EXCEPT ![t] =
          IF thread[t].presentation
          THEN [@ EXCEPT !.pc = IF raises THEN "returned" ELSE "finally_quit",
                         !.called = @ \cup {"Close"},
                         !.presentation_open = raises]
          ELSE [@ EXCEPT !.pc = "finally_quit"]]
    /\ (~thread[t].presentation => ~raises)
    /\ UNCHANGED <<global_converter, lock_holder>>

\* finally, first try: if presentation: presentation.Close()
finally_close(t, raises) ==
    /\ thread[t].pc = "finally_close"
    /\ thread' = [thread EXCEPT ![t] =
          IF thread[t].presentation
          THEN [@ EXCEPT !.pc = "finally_quit",
                         !.called = @ \cup {"Close"},
                         !.presentation_open = raises]
          ELSE [@ EXCEPT !.pc = "finally_quit"]]
    /\ (~thread[t].presentation => ~raises)
    /\ UNCHANGED <<global_converter, lock_holder>>

\* finally, second try: if ppt_app: ppt_app.Quit(); then the call returns
finally_quit(t, raises) ==
    /\ thread[t].pc = "finally_quit"
    /\ thread' = [thread EXCEPT ![t] =
          IF thread[t].ppt_app
          THEN [@ EXCEPT !.pc = "returned",
                         !.called = @ \cup {"Quit"},
                         !.app_running = raises]
          ELSE [@ EXCEPT !.pc = "returned"]]
    /\ (~thread[t].ppt_app => ~raises)
    /\ UNCHANGED <<global_converter, lock_holder>>

\* the caller goes on
return_to_caller(t) ==
    /\ thread[t].pc = "returned"
    /\ thread' = [thread EXCEPT ![t] = AfterCall(thread[t])]
    /\ UNCHANGED <<global_converter, lock_holder>>

InitEngVars ==
    /\ global_converter = [b \in Backends |-> None]
    /\ lock_holder = [o \in Converters |-> None]
    /\ thread = [t \in Threads |-> IdleThread]

-----------------------------------------------------------------------------
(* Console bootstrap: main, console_login, console_menu (main.py) *)

\* most entries typed at the prompts in a behaviour
MaxTyped == 5

max_attempts == 3

\* the fixed account table: user -> is_admin
Accounts == [admin |-> TRUE, user1 |-> FALSE]

\* what can happen at the username/password prompts: a valid pair of some
\* account, a rejected pair, a blank field, an exception of input() or
\* authenticate(), Ctrl-C
LoginEntries ==
    {[kind |-> "valid", user |-> u] : u \in DOMAIN Accounts}
        \cup {[kind |-> k, user |-> None] :
                k \in {"wrong", "blank", "error", "interrupt"}}

\* what can be entered at the menu prompt
MenuChoices == {"1", "2", "3", "4", "9", "0", "7", "interrupt", "error"}

\* a login loop without the cap
LoopEnds_Never(a) == FALSE

\* range(max_attempts) is exhausted after the iteration with index a
LoopEnds(a) == a + 1 >= max_attempts

\* a process that always ends with status 0
ExitStatus_AlwaysZero(cause) == 0

\* the status the process ends with: sys.exit(1) on lines 232, 243 and 247,
\* the end of main() otherwise
ExitStatus(cause) ==
    IF cause \in {"deps", "login", "error"} THEN 1 ELSE 0

Exit(cause, message) ==
    /\ mainPc' = "exited"
    /\ exit_status' = ExitStatus(cause)
    /\ printed' = printed \cup message

\* main up to the login: setup_application, check_dependencies and the
\* construction of the AuthenticationManager
main_start(deps_ok, auth_ok) ==
    /\ mainPc = "start"
    /\ IF ~deps_ok THEN Exit("deps", {"missing modules"})
       ELSE IF ~auth_ok THEN Exit("error", {"application error"})
       ELSE /\ mainPc' = "login"
            /\ UNCHANGED <<exit_status, printed>>
    /\ UNCHANGED <<attempt, session, typed>>

\* a login round without `if not username or not password: ... continue`
AuthenticateCalled_NoBlankTest(kind) ==
    CASE kind \in {"valid", "wrong", "blank"} -> {TRUE}
      [] kind = "interrupt" -> {FALSE}
      [] OTHER -> BOOLEAN

\* whether a login round calls auth_manager.authenticate: a blank field
\* continues before the call, Ctrl-C arrives at a prompt, and an exception
\* is raised by input() before the call or by authenticate itself
AuthenticateCalled(kind) ==
    CASE kind \in {"valid", "wrong"} -> {TRUE}
      [] kind \in {"blank", "interrupt"} -> {FALSE}
      [] OTHER -> BOOLEAN

\* one iteration of the loop of console_login, and what main does when
\* console_login returns
login_attempt(entry) ==
    /\ mainPc = "login"
    /\ Len(typed) < MaxTyped
    /\ \E called \in AuthenticateCalled(entry.kind) :
           typed' = Append(typed, [at |-> "login", entry |-> entry.kind,
                                   authenticate |-> called])
    /\ CASE entry.kind = "valid" ->
              /\ session' = entry.user
              /\ mainPc' = "menu"
              /\ UNCHANGED <<attempt, exit_status, printed>>
         [] entry.kind = "interrupt" ->
              /\ Exit("login", {"login failed"})
              /\ UNCHANGED <<attempt, session>>
         [] OTHER ->
              /\ UNCHANGED session
              /\ IF LoopEnds(attempt)
                 THEN /\ Exit("login", {"attempts exceeded", "login failed"})
                      /\ UNCHANGED attempt
                 ELSE /\ attempt' = attempt + 1
                      /\ UNCHANGED <<mainPc, exit_status, printed>>

\* console_menu whose KeyboardInterrupt clause breaks without logout()
menu_choice_InterruptKeepsSession(choice) ==
    /\ mainPc = "menu"
    /\ Len(typed) < MaxTyped
    /\ UNCHANGED attempt
    /\ IF session = None
       THEN /\ Exit("menu", {})
            /\ UNCHANGED <<session, typed>>
       ELSE /\ typed' = Append(typed, [at |-> "menu", entry |-> choice])
            /\ CASE choice = "9" ->
                      /\ session' = None
                      /\ Exit("menu", {"logged out"})
                 [] choice = "0" ->
                      /\ session' = None
                      /\ Exit("menu", {"quit"})
                 [] choice = "interrupt" ->
                      /\ UNCHANGED session
                      /\ Exit("menu", {"quit"})
                 [] OTHER ->
                      UNCHANGED <<mainPc, session, exit_status, printed>>

\* one iteration of the loop of console_menu, and the end of main when the
\* loop is left
menu_choice(choice) ==
    /\ mainPc = "menu"
    /\ Len(typed) < MaxTyped
    /\ UNCHANGED attempt
    /\ IF session = None
       THEN /\ Exit("menu", {})
            /\ UNCHANGED <<session, typed>>
       ELSE /\ typed' = Append(typed, [at |-> "menu", entry |-> choice])
            /\ CASE choice = "9" ->
                      /\ session' = None
                      /\ Exit("menu", {"logged out"})
                 [] choice = "0" ->
                      /\ session' = None
                      /\ Exit("menu", {"quit"})
                 [] choice = "interrupt" ->
                      /\ session' = None
                      /\ Exit("menu", {"quit"})
                 [] OTHER ->
                      UNCHANGED <<mainPc, session, exit_status, printed>>

InitMainVars ==
    /\ mainPc = "start"
    /\ attempt = 0
    /\ session = None
    /\ exit_status = None
    /\ typed = <<>>
    /\ printed = {}

-----------------------------------------------------------------------------
(* SearchIndexer, SearchWidget and IndexingWorker *)

\* largest number of IndexingWorker threads in a behaviour
MaxPasses == 2

\* the directory offered to set_directory
Directories == {"docs"}

\* what os.walk lists under the directory, in order; the entries are rows
\* of FileTable, and gone.pdf is a file that is listed and cannot be read
DirFiles == <<"b.txt", "a.pdf", "s.xlsx", "c.xyz", "gone.pdf", "bad.docx",
              "Bee.docx", "p.pptx">>

\* the extensions registered with a handler
RegisteredExtensions == {".pdf", ".txt", ".docx", ".xlsx", ".pptx"}

\* os.path.splitext(p)[1]
RECURSIVE ExtensionFrom(_, _)
ExtensionFrom(p, i) ==
    IF i = 0 THEN ""
    ELSE IF CharAt(p, i) = "." THEN SubSeq(p, i, Len(p))
    ELSE ExtensionFrom(p, i - 1)

\* FileManager.is_supported_file: by extension only
is_supported_file(file_path) ==
    ExtensionFrom(file_path, Len(file_path)) \in RegisteredExtensions

\* FileManager.get_file_info(file_path)['supported']: the extension is
\* registered and the file can be read
InfoSupported(file_path, readable) ==
    /\ readable
    /\ FileTable[file_path].exists
    /\ FileTable[file_path].supported

\* FileManager.extract_text of a file that can be read
TextOf(file_path) ==
    CASE file_path = "a.pdf" -> "The ABC-ef"
      [] file_path = "b.txt" -> "ab cd"
      [] file_path = "s.xlsx" -> "ab cd"
      [] file_path = "p.pptx" -> "The ABC-ef"
      [] OTHER -> ""

\* _tokenize over "<filename> <text>" of each file, evaluated once
ViewTokenTable ==
    [p \in DOMAIN FileTable |->
        Range(_tokenize(Basename(p) \o " " \o TextOf(p)))]

\* FileManager.get_file_info(file_path)['file_size_mb']
SizeOf(file_path) ==
    CASE file_path = "a.pdf" -> 2
      [] file_path = "b.txt" -> 1
      [] file_path = "bad.docx" -> 3
      [] file_path = "Bee.docx" -> 1
      [] file_path = "s.xlsx" -> 5
      [] file_path = "p.pptx" -> 2
      [] OTHER -> 0

\* os.path.getmtime(file_path) as _get_file_mtime returns it: 0 for a file
\* that cannot be read
MtimeOf(file_path) ==
    CASE file_path = "a.pdf" -> 4
      [] file_path = "b.txt" -> 7
      [] file_path = "bad.docx" -> 4
      [] file_path = "Bee.docx" -> 9
      [] file_path = "s.xlsx" -> 3
      [] file_path = "p.pptx" -> 6
      [] OTHER -> 0

\* files_to_index collected without the test of the file type
FilesToIndex_AnyType == SelectSeq(DirFiles, is_supported_file)

\* the files index_directory collects: supported by extension, not excel
FilesToIndex ==
    LET Eligible(f) == /\ is_supported_file(f)
                       /\ FileTable[f].file_type # "excel"
    IN SelectSeq(DirFiles, Eligible)

\* the block reaches index.add_file: the file is supported and extract_text
\* has not raised
Adds(file_path) ==
    InfoSupported(file_path, dir_exists) /\ ~FileTable[file_path].raises

\* index_directory and add_file_to_index, the block both run for one file,
\* up to index.add_file: get_file_info, and for a supported file
\* extract_text and index.add_file; an exception of extract_text is caught
\* by the caller
ExtractAndAdd(file_path) ==
    LET extracts == InfoSupported(file_path, dir_exists)
        adds == Adds(file_path)
    IN /\ handler_calls' =
              IF extracts
              THEN handler_calls \cup {[by |-> "SearchIndexer",
                                        op |-> "extract_text",
                                        file_path |-> file_path]}
              ELSE handler_calls
       /\ IF adds
          THEN /\ index' = PostedIndex(RemovedIndex(index, file_path),
                                       file_path, ViewTokenTable[file_path])
               /\ file_info' =
                      AddedInfo(RemovedInfo(file_info, file_path), file_path,
                                TextOf(file_path),
                                [file_type |-> FileTable[file_path].file_type,
                                 file_size_mb |-> SizeOf(file_path)])
          ELSE UNCHANGED <<index, file_info>>

\* the whole block: after index.add_file comes indexed_paths.add
IndexFileBlock(file_path) ==
    /\ ExtractAndAdd(file_path)
    /\ indexed_paths' = IF Adds(file_path)
                        THEN indexed_paths \cup {file_path}
                        ELSE indexed_paths

\* QThread.isRunning that is never true
isRunning_Never(w) == FALSE

\* QThread.isRunning: true from start() until the thread has finished
isRunning(w) == iworkers[w].pc # "finished"

\* the widgets of a SearchWidget
selection == <<current_selected_file, open_buttons>>

searchState == <<results_list, current_search_results, current_sort_mode,
                 selection>>

widgetState == <<current_directory, indexing_worker, index_button,
                 progress_bar, progress_label, results_label,
                 index_stats_label, widgetPc, searchState>>

\* the GUI thread is in no SearchWidget method
Idle == [pc |-> "idle", filename_query |-> "", content_query |-> ""]

\* the record of a call of a SearchWidget method
Called(op, started) ==
    [op |-> op, started |-> started, turn |-> 1 - wCall.turn]

\* SearchWidget.update_index_stats, on the index as it is at the call
update_index_stats(idx, fi) ==
    index_stats_label' = [files |-> Statistics(idx, fi).total_files,
                          tokens |-> Statistics(idx, fi).total_tokens]

\* SearchWidget.set_directory(directory_path)
set_directory(directory_path) ==
    /\ widgetPc = Idle
    /\ current_directory' = directory_path
    /\ index_button' = TRUE
    /\ wCall' = Called("set_directory", FALSE)
    /\ UNCHANGED <<idxVars, fmVars, indexed_paths, stop_indexing, dir_exists,
                   indexing_worker, iworkers, wevents, progress_bar,
                   progress_label, results_label, index_stats_label,
                   widgetPc, searchState>>

\* the directory is removed from the file system
remove_directory ==
    /\ dir_exists
    /\ dir_exists' = FALSE
    /\ UNCHANGED <<idxVars, fmVars, indexed_paths, stop_indexing, iworkers,
                   wevents, widgetState, wCall>>

\* SearchWidget.start_indexing
start_indexing ==
    /\ widgetPc = Idle
    /\ IF current_directory = "" \/ ~dir_exists
       THEN /\ results_label' = [text |-> "select a directory first",
                                 count |-> 0]
            /\ UNCHANGED <<indexing_worker, iworkers, index_button,
                           progress_bar, progress_label>>
       ELSE IF indexing_worker # 0 /\ isRunning(indexing_worker)
       THEN UNCHANGED <<indexing_worker, iworkers, index_button,
                        progress_bar, progress_label, results_label>>
       ELSE /\ Len(iworkers) < MaxPasses
            /\ index_button' = FALSE
            /\ progress_bar' = [visible |-> TRUE, value |-> 0]
            /\ progress_label' = [visible |-> TRUE, text |-> "preparing"]
            /\ iworkers' = Append(iworkers,
                                  [directory_path |-> current_directory,
                                   pc |-> "start", files_to_index |-> <<>>,
                                   i |-> 0, initial_count |-> 0])
            /\ indexing_worker' = Len(iworkers) + 1
            /\ UNCHANGED results_label
    /\ wCall' = Called("start_indexing", iworkers' # iworkers)
    /\ UNCHANGED <<idxVars, fmVars, indexed_paths, stop_indexing, dir_exists,
                   current_directory, wevents, index_stats_label, widgetPc,
                   searchState>>

\* IndexingWorker.run up to the loop of index_directory: the count is
\* taken, and a directory that does not exist ends the pass at once
worker_begin(w) ==
    /\ iworkers[w].pc = "start"
    /\ iworkers' =
           [iworkers EXCEPT
               ![w].initial_count = Cardinality(indexed_paths),
               ![w].files_to_index = IF dir_exists THEN FilesToIndex ELSE <<>>,
               ![w].pc = "loop"]
    /\ UNCHANGED <<idxVars, fmVars, indexed_paths, stop_indexing, dir_exists,
                   wevents, widgetState, wCall>>

\* a loop of index_directory without `if self.stop_indexing: break`
worker_file_NoStopTest(w) ==
    LET me == iworkers[w]
        total_files == Len(me.files_to_index)
    IN /\ me.pc = "loop"
       /\ IF me.i >= total_files
          THEN /\ iworkers' = [iworkers EXCEPT ![w].pc = "emit"]
               /\ UNCHANGED <<index, file_info, fmVars, indexed_paths,
                              wevents>>
          ELSE LET file_path == me.files_to_index[me.i + 1]
               IN /\ ExtractAndAdd(file_path)
                  /\ iworkers' = IF Adds(file_path)
                                 THEN [iworkers EXCEPT ![w].pc = "added"]
                                 ELSE [iworkers EXCEPT ![w].i = me.i + 1]
                  /\ UNCHANGED <<indexed_paths, wevents>>
       /\ UNCHANGED <<lastCall, ret, stop_indexing, dir_exists, widgetState,
                      wCall>>

\* one round of the loop of index_directory up to index.add_file, or the
\* end of the loop; the worker is a thread of its own, and the GUI thread
\* may run between index.add_file and indexed_paths.add
worker_file(w) ==
    LET me == iworkers[w]
        total_files == Len(me.files_to_index)
    IN /\ me.pc = "loop"
       /\ IF stop_indexing \/ me.i >= total_files
          THEN /\ iworkers' = [iworkers EXCEPT ![w].pc = "emit"]
               /\ UNCHANGED <<index, file_info, fmVars, indexed_paths,
                              wevents>>
          ELSE LET file_path == me.files_to_index[me.i + 1]
               IN /\ ExtractAndAdd(file_path)
                  /\ iworkers' = IF Adds(file_path)
                                 THEN [iworkers EXCEPT ![w].pc = "added"]
                                 ELSE [iworkers EXCEPT ![w].i = me.i + 1]
                  /\ UNCHANGED <<indexed_paths, wevents>>
       /\ UNCHANGED <<lastCall, ret, stop_indexing, dir_exists, widgetState,
                      wCall>>

\* the rest of the round: indexed_paths.add and the progress callback
worker_added(w) ==
    LET me == iworkers[w]
        file_path == me.files_to_index[me.i + 1]
    IN /\ me.pc = "added"
       /\ indexed_paths' = indexed_paths \cup {file_path}
       /\ wevents' = Append(wevents,
                            [signal |-> "progress_updated", sender |-> w,
                             file_path |-> file_path,
                             value |-> ((me.i + 1) * 100)
                                           \div Len(me.files_to_index)])
       /\ iworkers' = [iworkers EXCEPT ![w].i = me.i + 1, ![w].pc = "loop"]
       /\ UNCHANGED <<idxVars, fmVars, stop_indexing, dir_exists, widgetState,
                      wCall>>

\* SearchIndexer.stop_indexing_process, callable from any thread at any time
stop_indexing_process ==
    /\ stop_indexing' = TRUE
    /\ UNCHANGED <<idxVars, fmVars, indexed_paths, dir_exists, iworkers,
                   wevents, widgetState, wCall>>

\* IndexingWorker.run after index_directory: indexing_finished is emitted
worker_emit(w) ==
    /\ iworkers[w].pc = "emit"
    /\ iworkers' = [iworkers EXCEPT ![w].pc = "emitted"]
    /\ wevents' = Append(wevents,
                         [signal |-> "indexing_finished", sender |-> w,
                          file_path |-> "",
                          value |-> Cardinality(indexed_paths)
                                        - iworkers[w].initial_count])
    /\ UNCHANGED <<idxVars, fmVars, indexed_paths, stop_indexing, dir_exists,
                   widgetState, wCall>>

\* run() has returned and the thread finishes
worker_finish(w) ==
    /\ iworkers[w].pc = "emitted"
    /\ iworkers' = [iworkers EXCEPT ![w].pc = "finished"]
    /\ UNCHANGED <<idxVars, fmVars, indexed_paths, stop_indexing, dir_exists,
                   wevents, widgetState, wCall>>

\* SearchWidget.on_indexing_progress
on_indexing_progress(e) ==
    /\ progress_bar' = [progress_bar EXCEPT !.value = e.value]
    /\ progress_label' = [progress_label EXCEPT !.text = Basename(e.file_path)]
    /\ UNCHANGED <<index_button, results_label, index_stats_label>>

\* SearchWidget.on_indexing_finished
on_indexing_finished(e) ==
    /\ progress_bar' = [progress_bar EXCEPT !.visible = FALSE]
    /\ progress_label' = [progress_label EXCEPT !.visible = FALSE]
    /\ index_button' = TRUE
    /\ update_index_stats(index, file_info)
    /\ results_label' = [text |-> "newly indexed", count |-> e.value]

\* the GUI event loop delivers the next queued signal to its slot
deliver_wevent ==
    /\ widgetPc.pc \in {"idle", "processEvents"}
    /\ wevents # <<>>
    /\ wevents' = Tail(wevents)
    /\ IF Head(wevents).signal = "progress_updated"
       THEN on_indexing_progress(Head(wevents))
       ELSE on_indexing_finished(Head(wevents))
    /\ wCall' = Called(IF Head(wevents).signal = "progress_updated"
                       THEN "on_indexing_progress"
                       ELSE "on_indexing_finished", FALSE)
    /\ UNCHANGED <<idxVars, fmVars, indexed_paths, stop_indexing, dir_exists,
                   current_directory, indexing_worker, iworkers, widgetPc,
                   searchState>>

\* SearchWidget.add_file_to_index: SearchIndexer.add_file_to_index, then
\* update_index_stats
add_file_to_index(file_path) ==
    /\ widgetPc = Idle
    /\ IF is_supported_file(file_path)
            /\ FileTable[file_path].file_type # "excel"
       THEN IndexFileBlock(file_path)
       ELSE UNCHANGED <<index, file_info, fmVars, indexed_paths>>
    /\ update_index_stats(index', file_info')
    /\ wCall' = Called("add_file_to_index", FALSE)
    /\ UNCHANGED <<lastCall, ret, stop_indexing, dir_exists, current_directory,
                   indexing_worker, iworkers, wevents, index_button,
                   progress_bar, progress_label, results_label, widgetPc,
                   searchState>>

\* SearchIndexer.update_file_in_index: remove_file_from_index for a path of
\* indexed_paths, then add_file_to_index
update_file_in_index(file_path) ==
    LET known == file_path \in indexed_paths
        idx == IF known THEN RemovedIndex(index, file_path) ELSE index
        fi == IF known THEN RemovedInfo(file_info, file_path) ELSE file_info
        paths == indexed_paths \ {file_path}
        tries == /\ is_supported_file(file_path)
                 /\ FileTable[file_path].file_type # "excel"
        extracts == tries /\ InfoSupported(file_path, dir_exists)
        adds == tries /\ Adds(file_path)
    IN /\ widgetPc = Idle
       /\ handler_calls' =
              IF extracts
              THEN handler_calls \cup {[by |-> "SearchIndexer",
                                        op |-> "extract_text",
                                        file_path |-> file_path]}
              ELSE handler_calls
       /\ index' = IF adds
                   THEN PostedIndex(idx, file_path, ViewTokenTable[file_path])
                   ELSE idx
       /\ file_info' =
              IF adds
              THEN AddedInfo(fi, file_path, TextOf(file_path),
                             [file_type |-> FileTable[file_path].file_type,
                              file_size_mb |-> SizeOf(file_path)])
              ELSE fi
       /\ indexed_paths' = IF adds THEN paths \cup {file_path} ELSE paths
       /\ UNCHANGED <<lastCall, ret, stop_indexing, dir_exists, iworkers,
                      wevents, wCall, widgetState>>

InitWidgetVars ==
    /\ indexed_paths = {}
    /\ stop_indexing = FALSE
    /\ dir_exists = TRUE
    /\ current_directory = ""
    /\ indexing_worker = 0
    /\ iworkers = <<>>
    /\ wevents = <<>>
    /\ index_button = TRUE
    /\ progress_bar = [visible |-> FALSE, value |-> 0]
    /\ progress_label = [visible |-> FALSE, text |-> ""]
    /\ results_label = [text |-> "results", count |-> 0]
    /\ index_stats_label = [files |-> 0, tokens |-> 0]
    /\ wCall = [op |-> "init", started |-> FALSE, turn |-> 0]
    /\ widgetPc = Idle
    /\ results_list = <<>>
    /\ current_search_results = <<>>
    /\ current_sort_mode = "relevance"
    /\ current_selected_file = None
    /\ open_buttons = {}

-----------------------------------------------------------------------------
(* SearchWidget: searching, sorting and showing results *)

\* the texts of filename_search_input and search_input at a search, after
\* strip(); the content queries are members of Queries
FilenameQueries == {"", "b", "B", "b,d"}

ContentQueries == {"", "ef ab"}

\* the entries of sort_combo
SortModes == {"relevance", "name_asc", "name_desc", "mtime_desc",
              "mtime_asc", "size_desc", "size_asc"}

\* the entries offered to on_sort_changed
SortInputs == {"relevance", "name_desc", "mtime_desc", "size_asc"}

\* max_results of the two searches of perform_search
ContentMaxResults == 200

FilenameMaxResults == 100

\* the printable ASCII characters of the inputs, in code order
AsciiOrder == " ,-./0123456789ABCDEFGHIJKLMNOPQRSTUVWXYZ_abcdefghijklmnopqrstuvwxyz"

Code(c) == CHOOSE i \in 1..Len(AsciiOrder) : CharAt(AsciiOrder, i) = c

Rest(s) == SubSeq(s, 2, Len(s))

\* a < b for str
RECURSIVE StrLess(_, _)
StrLess(a, b) ==
    IF b = "" THEN FALSE
    ELSE IF a = "" THEN TRUE
    ELSE IF CharAt(a, 1) = CharAt(b, 1) THEN StrLess(Rest(a), Rest(b))
    ELSE Code(CharAt(a, 1)) < Code(CharAt(b, 1))

\* os.path.splitext(file)[0]
Stem(file) ==
    LET ext == ExtensionFrom(file, Len(file))
    IN SubSeq(file, 1, Len(file) - Len(ext))

\* SearchWidget.search_by_filename: the walk, the test of each name against
\* the whole query, the supported checks and the cap; the final sort by the
\* constant relevance keeps the order
search_by_filename(query, max_results) ==
    IF current_directory = "" \/ ~dir_exists THEN <<>>
    ELSE LET query_lower == Lower(query)
             Hit(file) ==
                 /\ Contains(Lower(Stem(file)), query_lower)
                 /\ is_supported_file(file)
                 /\ InfoSupported(file, dir_exists)
             hits == SelectSeq(DirFiles, Hit)
             kept == SubSeq(hits, 1, Min(max_results, Len(hits)))
         IN [i \in DOMAIN kept |->
                [filename |-> Basename(kept[i]),
                 file_path |-> kept[i],
                 file_type |-> FileTable[kept[i]].file_type,
                 file_size_mb |-> SizeOf(kept[i]),
                 relevance_score |-> ScoreScale,
                 preview |-> "filename match: " \o Stem(kept[i])]]

\* str.split(',') with strip() and lower() of each part, empty parts dropped
RECURSIVE SplitCommaFrom(_, _, _)
SplitCommaFrom(s, i, cur) ==
    IF i > Len(s) THEN <<cur>>
    ELSE IF CharAt(s, i) = ","
         THEN <<cur>> \o SplitCommaFrom(s, i + 1, "")
         ELSE SplitCommaFrom(s, i + 1, cur \o CharAt(s, i))

\* str.strip()
RECURSIVE Strip(_)
Strip(s) ==
    IF s = "" THEN s
    ELSE IF CharAt(s, 1) \in Whitespace THEN Strip(Rest(s))
    ELSE IF CharAt(s, Len(s)) \in Whitespace
         THEN Strip(SubSeq(s, 1, Len(s) - 1))
    ELSE s

\* the keywords of _filter_by_filename
Keywords(filename_query) ==
    IF Contains(filename_query, ",")
    THEN LET parts == SplitCommaFrom(filename_query, 1, "")
             stripped == [i \in DOMAIN parts |-> Lower(Strip(parts[i]))]
             NonEmpty(kw) == kw # ""
         IN SelectSeq(stripped, NonEmpty)
    ELSE <<Lower(filename_query)>>

\* replace(' ', '').replace('\n', '').replace('\t', '')
RECURSIVE NoSpace(_)
NoSpace(s) ==
    IF s = "" THEN s
    ELSE IF CharAt(s, 1) \in {" ", "\n", "\t"} THEN NoSpace(Rest(s))
    ELSE CharAt(s, 1) \o NoSpace(Rest(s))

\* SearchWidget._filter_by_filename
_filter_by_filename(results, filename_query) ==
    LET keywords == Keywords(filename_query)
        AllFound(result) ==
            LET filename == Lower(result.filename)
            IN \A i \in DOMAIN keywords :
                   \/ Contains(filename, keywords[i])
                   \/ Contains(NoSpace(filename), NoSpace(keywords[i]))
    IN SelectSeq(results, AllFound)

\* sorted(results, key=...): stable; with reverse=True equal keys keep
\* their order too.  Before(a, b): a has to come ahead of b
RECURSIVE InsertStable(_, _, _)
InsertStable(Before(_, _), sorted, r) ==
    IF sorted = <<>> THEN <<r>>
    ELSE IF Before(r, Head(sorted)) THEN <<r>> \o sorted
    ELSE <<Head(sorted)>> \o InsertStable(Before, Tail(sorted), r)

RECURSIVE SortStable(_, _, _)
SortStable(Before(_, _), results, i) ==
    IF i = 0 THEN <<>>
    ELSE InsertStable(Before, SortStable(Before, results, i - 1), results[i])

\* SearchWidget._sort_results
_sort_results(results, sort_mode) ==
    LET NameAsc(a, b) == StrLess(Lower(a.filename), Lower(b.filename))
        NameDesc(a, b) == StrLess(Lower(b.filename), Lower(a.filename))
        MtimeDesc(a, b) == MtimeOf(a.file_path) > MtimeOf(b.file_path)
        MtimeAsc(a, b) == MtimeOf(a.file_path) < MtimeOf(b.file_path)
        SizeDesc(a, b) == a.file_size_mb > b.file_size_mb
        SizeAsc(a, b) == a.file_size_mb < b.file_size_mb
        n == Len(results)
    IN CASE sort_mode = "name_asc" -> SortStable(NameAsc, results, n)
         [] sort_mode = "name_desc" -> SortStable(NameDesc, results, n)
         [] sort_mode = "mtime_desc" -> SortStable(MtimeDesc, results, n)
         [] sort_mode = "mtime_asc" -> SortStable(MtimeAsc, results, n)
         [] sort_mode = "size_desc" -> SortStable(SizeDesc, results, n)
         [] sort_mode = "size_asc" -> SortStable(SizeAsc, results, n)
         [] OTHER -> results

\* extension_priority.get(x, 99) of _group_by_extension
ExtensionPriority(ext) ==
    CASE ext \in {"ppt", "pptx"} -> 1
      [] ext = "pdf" -> 2
      [] ext \in {"doc", "docx"} -> 3
      [] ext = "txt" -> 4
      [] ext \in {"xls", "xlsx"} -> 5
      [] ext \in {"jpg", "jpeg", "png", "gif", "bmp"} -> 6
      [] OTHER -> 99

\* the keys of a dict filled in the order of results: each file_type once,
\* in the order of its first result
RECURSIVE GroupKeys(_, _)
GroupKeys(results, i) ==
    IF i = 0 THEN <<>>
    ELSE LET before == GroupKeys(results, i - 1)
             ext == Lower(results[i].file_type)
         IN IF ext \in Range(before) THEN before ELSE Append(before, ext)

\* SearchWidget._group_by_extension: <<file_type, its results>> by priority
_group_by_extension(results) ==
    LET keys == GroupKeys(results, Len(results))
        ByPriority(a, b) == ExtensionPriority(a) < ExtensionPriority(b)
        sorted_keys == SortStable(ByPriority, keys, Len(keys))
    IN [k \in DOMAIN sorted_keys |->
           LET InGroup(r) == Lower(r.file_type) = sorted_keys[k]
           IN <<sorted_keys[k], SelectSeq(results, InGroup)>>]

\* an item of results_list: data is the result record of a file item, None
\* for a header and for the searching item
Item(kind, data) == [kind |-> kind, data |-> data]

RECURSIVE GroupItems(_, _, _)
GroupItems(groups, k, many) ==
    IF k > Len(groups) THEN <<>>
    ELSE LET ext_results == groups[k][2]
             header == IF many THEN <<Item("header", None)>> ELSE <<>>
             files == [i \in DOMAIN ext_results |->
                          Item("file", ext_results[i])]
         IN header \o <<Item("dir_header", None)>> \o files
                \o GroupItems(groups, k + 1, many)

\* the items _display_sorted_results puts into results_list; every file of
\* the directory lies in the directory itself, so each file type has one
\* directory group
DisplayItems(results, sort_mode) ==
    LET groups == _group_by_extension(_sort_results(results, sort_mode))
    IN GroupItems(groups, 1, Len(groups) > 1)

\* SearchWidget._display_sorted_results (the query text of the label is
\* left out)
_display_sorted_results(results, sort_mode) ==
    IF results = <<>>
    THEN /\ results_list' = <<>>
         /\ results_label' = [text |-> "no results", count |-> 0]
    ELSE /\ results_list' = DisplayItems(results, sort_mode)
         /\ results_label' = [text |-> "results", count |-> Len(results)]

\* open_viewer_button, open_original_button, open_folder_button
OpenButtons == {"open_viewer_button", "open_original_button",
                "open_folder_button"}

\* SearchWidget.on_result_selected, the slot of results_list.itemClicked:
\* the user clicks item i of the list
on_result_selected(i) ==
    /\ widgetPc = Idle
    /\ i \in DOMAIN results_list
    /\ IF results_list[i].kind = "file"
       THEN /\ current_selected_file' = results_list[i].data.file_path
            /\ open_buttons' = OpenButtons
       ELSE /\ current_selected_file' = None
            /\ open_buttons' = {}
    /\ UNCHANGED <<idxVars, fmVars, indexed_paths, stop_indexing, dir_exists,
                   current_directory, indexing_worker, iworkers, wevents,
                   index_button, progress_bar, progress_label, results_label,
                   index_stats_label, wCall, widgetPc, results_list,
                   current_search_results, current_sort_mode>>

\* SearchWidget.on_search_text_changed(text)
on_search_text_changed(text) ==
    /\ widgetPc = Idle
    /\ IF Len(Strip(text)) < 2
       THEN /\ results_list' = <<>>
            /\ results_label' = [text |-> "results", count |-> 0]
       ELSE UNCHANGED <<results_list, results_label>>
    /\ UNCHANGED <<idxVars, fmVars, indexed_paths, stop_indexing, dir_exists,
                   current_directory, indexing_worker, iworkers, wevents,
                   index_button, progress_bar, progress_label,
                   index_stats_label, wCall, widgetPc,
                   current_search_results, current_sort_mode, selection>>

\* SearchWidget.perform_search up to QApplication.processEvents()
perform_search(filename_query, content_query) ==
    /\ widgetPc = Idle
    /\ IF filename_query = "" /\ content_query = ""
       THEN /\ results_label' = [text |-> "enter a query", count |-> 0]
            /\ wCall' = Called("perform_search", FALSE)
            /\ UNCHANGED <<results_list, widgetPc>>
       ELSE /\ results_label' = [text |-> "searching", count |-> 0]
            /\ results_list' = <<Item("loading", None)>>
            /\ widgetPc' = [pc |-> "processEvents",
                            filename_query |-> filename_query,
                            content_query |-> content_query]
            /\ UNCHANGED wCall
    /\ UNCHANGED <<idxVars, fmVars, indexed_paths, stop_indexing, dir_exists,
                   current_directory, indexing_worker, iworkers, wevents,
                   index_button, progress_bar, progress_label,
                   index_stats_label, current_search_results,
                   current_sort_mode, selection>>

\* perform_search from the return of processEvents() on: the event queue
\* was empty when it returned
perform_search_resume ==
    LET filename_query == widgetPc.filename_query
        content_query == widgetPc.content_query
    IN /\ widgetPc.pc = "processEvents"
       /\ wevents = <<>>
       /\ widgetPc' = Idle
       /\ IF content_query # "" /\ Cardinality(indexed_paths) = 0
          THEN /\ results_list' = <<>>
               /\ results_label' = [text |-> "results", count |-> 0]
               /\ wCall' = Called("perform_search", FALSE)
                               @@ [dialog |-> "index first",
                                   queried |-> FALSE, walked |-> FALSE]
               /\ UNCHANGED <<idxVars, current_search_results>>
          ELSE /\ IF content_query # ""
                  THEN /\ search(content_query, ContentMaxResults)
                       /\ current_search_results' =
                              IF filename_query # "" /\ ret' # <<>>
                              THEN _filter_by_filename(ret', filename_query)
                              ELSE ret'
                  ELSE /\ current_search_results' =
                              search_by_filename(filename_query,
                                                 FilenameMaxResults)
                       /\ UNCHANGED idxVars
               /\ _display_sorted_results(current_search_results',
                                          current_sort_mode)
               /\ wCall' = Called("perform_search", FALSE)
                               @@ [dialog |-> "",
                                   queried |-> content_query # "",
                                   walked |-> content_query = ""]
       /\ UNCHANGED <<fmVars, indexed_paths, stop_indexing, dir_exists,
                      current_directory, indexing_worker, iworkers, wevents,
                      index_button, progress_bar, progress_label,
                      index_stats_label, current_sort_mode, selection>>

\* on_sort_changed with the cached list sorted in place
\* (self.current_search_results.sort(...) instead of sorted(...))
on_sort_changed_InPlace(sort_text) ==
    /\ widgetPc = Idle
    /\ current_sort_mode' = sort_text
    /\ current_search_results' = _sort_results(current_search_results, sort_text)
    /\ IF current_search_results # <<>>
       THEN _display_sorted_results(current_search_results, sort_text)
       ELSE UNCHANGED <<results_list, results_label>>
    /\ wCall' = Called("on_sort_changed", FALSE)
                    @@ [dialog |-> "", queried |-> FALSE, walked |-> FALSE]
    /\ UNCHANGED <<idxVars, fmVars, indexed_paths, stop_indexing, dir_exists,
                   current_directory, indexing_worker, iworkers, wevents,
                   index_button, progress_bar, progress_label,
                   index_stats_label, widgetPc, selection>>

\* SearchWidget.on_sort_changed(sort_text)
on_sort_changed(sort_text) ==
    /\ widgetPc = Idle
    /\ current_sort_mode' = sort_text
    /\ IF current_search_results # <<>>
       THEN _display_sorted_results(current_search_results, sort_text)
       ELSE UNCHANGED <<results_list, results_label>>
    /\ wCall' = Called("on_sort_changed", FALSE)
                    @@ [dialog |-> "", queried |-> FALSE, walked |-> FALSE]
    /\ UNCHANGED <<idxVars, fmVars, indexed_paths, stop_indexing, dir_exists,
                   current_directory, indexing_worker, iworkers, wevents,
                   index_button, progress_bar, progress_label,
                   index_stats_label, widgetPc, current_search_results,
                   selection>>

\* SearchWidget.clear_index up to the first statement of
\* SearchIndexer.clear_index: self.index = SearchIndex()
clear_index ==
    /\ widgetPc = Idle
    /\ index' = <<>>
    /\ file_info' = <<>>
    /\ widgetPc' = [Idle EXCEPT !.pc = "clear_index"]
    /\ UNCHANGED <<lastCall, ret, fmVars, indexed_paths, stop_indexing,
                   dir_exists, current_directory, indexing_worker, iworkers,
                   wevents, index_button, progress_bar, progress_label,
                   results_label, index_stats_label, wCall, searchState>>

\* the rest of clear_index: indexed_paths.clear(), then the widget's part
clear_index_resume ==
    /\ widgetPc.pc = "clear_index"
    /\ widgetPc' = Idle
    /\ indexed_paths' = {}
    /\ results_list' = <<>>
    /\ update_index_stats(index, file_info)
    /\ results_label' = [text |-> "index cleared", count |-> 0]
    /\ open_buttons' = {}
    /\ current_selected_file' = None
    /\ wCall' = Called("clear_index", FALSE)
    /\ UNCHANGED <<idxVars, fmVars, stop_indexing, dir_exists,
                   current_directory, indexing_worker, iworkers, wevents,
                   index_button, progress_bar, progress_label,
                   current_search_results, current_sort_mode>>

-----------------------------------------------------------------------------
(* PdfHandler: render_page_to_image and get_page_preview_info *)

\* largest page number passed to the handler, in either direction
MaxPageNum == 4

PageNums == (0 - MaxPageNum)..MaxPageNum

\* zoom arguments: the default and the viewer's
Zooms == {"1.0", "1.5"}

\* the files passed to the handler: fitz.open succeeds or raises, len(doc),
\* and whether a page of the document can be rendered and read
PdfFiles == {"one.pdf", "two.pdf", "three.pdf", "damaged.pdf", "locked.pdf"}

PdfTable ==
    [f \in PdfFiles |->
        CASE f = "one.pdf"     -> [opens |-> TRUE, pages |-> 1, page_ok |-> TRUE]
          [] f = "two.pdf"     -> [opens |-> TRUE, pages |-> 2, page_ok |-> TRUE]
          [] f = "three.pdf"   -> [opens |-> TRUE, pages |-> 3, page_ok |-> TRUE]
          [] f = "damaged.pdf" -> [opens |-> TRUE, pages |-> 2, page_ok |-> FALSE]
          [] f = "locked.pdf"  -> [opens |-> FALSE, pages |-> 0, page_ok |-> FALSE]]

\* how a block of statements ends: with a returned value or with an
\* exception on its way to the caller
Returned(kind, page_number, total_pages) ==
    [raised |-> FALSE, kind |-> kind, page_number |-> page_number,
     total_pages |-> total_pages]

Raised == [raised |-> TRUE, kind |-> "exception", page_number |-> 0,
           total_pages |-> 0]

\* a try block without an except clause: the exception goes on
ExceptReturns_Reraise(outcome, kind) == outcome

\* try: ... except Exception: return <kind>
ExceptReturns(outcome, kind) ==
    IF outcome.raised THEN Returned(kind, 0, 0) ELSE outcome

\* PdfHandler.get_page_count
get_page_count(file_path) ==
    IF PdfTable[file_path].opens THEN PdfTable[file_path].pages ELSE 0

\* the try block of render_page_to_image
RenderBody(file_path, page_num) ==
    LET f == PdfTable[file_path]
    IN IF ~f.opens THEN Raised
       ELSE IF page_num >= f.pages \/ page_num < 0
            THEN Returned("None", 0, 0)
       ELSE IF ~f.page_ok THEN Raised
       ELSE Returned("image", page_num + 1, f.pages)

\* PdfHandler.render_page_to_image
render_page_to_image(file_path, page_num) ==
    ExceptReturns(RenderBody(file_path, page_num), "None")

\* the try block of get_page_preview_info
PreviewBody(file_path, page_num) ==
    LET f == PdfTable[file_path]
    IN IF ~f.opens THEN Raised
       ELSE IF page_num >= f.pages \/ page_num < 0
            THEN Returned("error", 0, 0)
       ELSE IF ~f.page_ok THEN Raised
       ELSE Returned("info", page_num + 1, f.pages)

\* PdfHandler.get_page_preview_info
get_page_preview_info(file_path, page_num) ==
    ExceptReturns(PreviewBody(file_path, page_num), "error")

\* a call of render_page_to_image
call_render_page_to_image(file_path, page_num, zoom) ==
    pdf_call' = [op |-> "render_page_to_image", file_path |-> file_path,
                 page_num |-> page_num, zoom |-> zoom,
                 result |-> render_page_to_image(file_path, page_num)]

\* a call of get_page_preview_info
call_get_page_preview_info(file_path, page_num) ==
    pdf_call' = [op |-> "get_page_preview_info", file_path |-> file_path,
                 page_num |-> page_num, zoom |-> "",
                 result |-> get_page_preview_info(file_path, page_num)]

InitPdfVars ==
    pdf_call = [op |-> "init", file_path |-> "", page_num |-> 0, zoom |-> "",
                result |-> Returned("None", 0, 0)]

-----------------------------------------------------------------------------
(* PowerPointHandler: the persistent connection *)

\* presentation files and the number of their slides
PptFiles == {"p.pptx", "q.pptx"}

SlideCount(file_path) == IF file_path = "p.pptx" THEN 2 ELSE 1

\* slide numbers passed to render_slide_fast
SlideNumbers == -1..2

\* PowerPointHandler.cache_max_size
cache_max_size == 20

\* the object win32com.client.Dispatch("PowerPoint.Application") returns
PowerPointApplication == "PowerPoint.Application"

pptState == <<current_ppt_app, current_presentation, ppt_file_path>>

\* the handler's attributes are assigned from <<app, presentation, path>>
SetPptState(state) ==
    /\ current_ppt_app' = state[1]
    /\ current_presentation' = state[2]
    /\ ppt_file_path' = state[3]

\* PowerPointHandler.close_persistent_connection as a function of the
\* handler's state <<app, presentation, file path>>: Close() or Quit() may
\* raise, and the except clause leaves the rest of the body undone
AfterClose(state, close_ok, quit_ok) ==
    LET app == state[1]
        presentation == state[2]
    IN IF presentation # None /\ ~close_ok THEN state
       ELSE IF app # None /\ ~quit_ok THEN <<app, None, state[3]>>
       ELSE <<None, None, None>>

\* PowerPointHandler.close_persistent_connection
close_persistent_connection(close_ok, quit_ok) ==
    /\ SetPptState(AfterClose(pptState, close_ok, quit_ok))
    /\ ppt_call' = [op |-> "close_persistent_connection", result |-> None]
    /\ UNCHANGED fast_render_cache

\* PowerPointHandler.open_persistent_connection: platform_ok is
\* sys.platform == 'win32' with pywin32 importable, open_ok is
\* Presentations.Open returning; close_ok and quit_ok are the answers of
\* Close() and Quit() in the close_persistent_connection calls it makes
open_persistent_connection(file_path, platform_ok, open_ok, close_ok, quit_ok) ==
    LET closed == AfterClose(pptState, close_ok, quit_ok)
        dispatched == <<PowerPointApplication, closed[2], closed[3]>>
    IN /\ UNCHANGED fast_render_cache
       /\ IF ~platform_ok
          THEN /\ SetPptState(closed)
               /\ ppt_call' = [op |-> "open_persistent_connection",
                               result |-> "False"]
          ELSE IF ~open_ok
          THEN /\ SetPptState(AfterClose(dispatched, close_ok, quit_ok))
               /\ ppt_call' = [op |-> "open_persistent_connection",
                               result |-> "False"]
          ELSE /\ SetPptState(<<PowerPointApplication, file_path, file_path>>)
               /\ ppt_call' = [op |-> "open_persistent_connection",
                               result |-> "True"]

\* PowerPointHandler._add_to_cache
_add_to_cache(cache_key) ==
    LET kept == IF Len(fast_render_cache) >= cache_max_size
                THEN Tail(fast_render_cache) ELSE fast_render_cache
    IN IF cache_key \in Range(kept)
       THEN kept
       ELSE Append(kept, cache_key)

\* PowerPointHandler.render_slide_fast with PIL available: export_ok is
\* slide.Export leaving a readable image file
render_slide_fast(slide_number, export_ok) ==
    LET cache_key == <<ppt_file_path, slide_number>>
        answer(r) == [op |-> "render_slide_fast", result |-> r]
    IN /\ UNCHANGED pptState
       /\ IF current_presentation = None
          THEN /\ ppt_call' = answer(None)
               /\ UNCHANGED fast_render_cache
          ELSE IF cache_key \in Range(fast_render_cache)
          THEN /\ ppt_call' = answer("image")
               /\ UNCHANGED fast_render_cache
          ELSE IF \/ slide_number < 0
                  \/ slide_number >= SlideCount(current_presentation)
                  \/ ~export_ok
          THEN /\ ppt_call' = answer(None)
               /\ UNCHANGED fast_render_cache
          ELSE /\ ppt_call' = answer("image")
               /\ fast_render_cache' = _add_to_cache(cache_key)

InitPptVars ==
    /\ current_ppt_app = None
    /\ current_presentation = None
    /\ ppt_file_path = None
    /\ fast_render_cache = <<>>
    /\ ppt_call = [op |-> "init", result |-> None]

-----------------------------------------------------------------------------
(* FileBrowser: set_root_path *)

\* the paths offered to set_root_path; each exists or not as the file
\* system stands
BrowserPaths == {"docs", "work", "tmp"}

browserState == <<current_path, path_label, info_label, root_index, watched>>

\* a FileBrowser method is entered
BrowserCalled(op, path) ==
    [op |-> op, path |-> path, turn |-> 1 - browser_call.turn]

\* set_root_path that does not test the path
set_root_path_NoTest(path) ==
    /\ current_path' = path
    /\ path_label' = [text |-> "path", path |-> path]
    /\ root_index' = path
    /\ watched' = IF path \in path_exists THEN {path} ELSE {}
    /\ info_label' = [text |-> "folder loaded", path |-> path]
    /\ browser_call' = BrowserCalled("set_root_path", path)
    /\ UNCHANGED path_exists

\* FileBrowser.set_root_path
set_root_path(path) ==
    /\ IF path \notin path_exists
       THEN /\ path_label' = [text |-> "invalid path", path |-> ""]
            /\ UNCHANGED <<current_path, info_label, root_index, watched>>
       ELSE /\ current_path' = path
            /\ path_label' = [text |-> "path", path |-> path]
            /\ root_index' = path
            /\ watched' = {path}
            /\ info_label' = [text |-> "folder loaded", path |-> path]
    /\ browser_call' = BrowserCalled("set_root_path", path)
    /\ UNCHANGED path_exists

\* FileBrowser.refresh_view
refresh_view ==
    /\ IF current_path # ""
       THEN /\ root_index' = IF current_path \in path_exists
                             THEN current_path ELSE ""
            /\ info_label' = [text |-> "refreshed", path |-> ""]
       ELSE UNCHANGED <<root_index, info_label>>
    /\ browser_call' = BrowserCalled("refresh_view", "")
    /\ UNCHANGED <<path_exists, current_path, path_label, watched>>

\* FileBrowser.on_directory_changed, the slot of file_watcher.directoryChanged
on_directory_changed(path) ==
    /\ path \in watched
    /\ info_label' = [text |-> "folder changed", path |-> path]
    /\ browser_call' = BrowserCalled("on_directory_changed", path)
    /\ UNCHANGED <<path_exists, current_path, path_label, root_index, watched>>

\* a directory is removed: os.path.exists turns false and the watcher stops
\* watching it
remove_path(path) ==
    /\ path \in path_exists
    /\ path_exists' = path_exists \ {path}
    /\ watched' = watched \ {path}
    /\ UNCHANGED <<current_path, path_label, info_label, root_index,
                   browser_call>>

\* a directory is created
create_path(path) ==
    /\ path \notin path_exists
    /\ path_exists' = path_exists \cup {path}
    /\ UNCHANGED <<browserState, browser_call>>

InitBrowserVars ==
    /\ path_exists = {"docs", "work"}
    /\ current_path = ""
    /\ path_label = [text |-> "choose a folder", path |-> ""]
    /\ info_label = [text |-> "choose a file", path |-> ""]
    /\ root_index = ""
    /\ watched = {}
    /\ browser_call = [op |-> "init", path |-> "", turn |-> 0]

-----------------------------------------------------------------------------
(* What each specification leaves alone *)

notIdx == <<viewVars, convVars, engVars, mainVars, fmVars, widgetVars,
           handlerVars>>

notView == <<idxVars, convVars, engVars, mainVars, widgetVars,
           handlerVars>>

notConv == <<idxVars, viewVars, engVars, mainVars, fmVars, widgetVars,
           handlerVars>>

notEng == <<idxVars, viewVars, convVars, mainVars, fmVars, widgetVars,
           handlerVars>>

notMain == <<idxVars, viewVars, convVars, engVars, fmVars, widgetVars,
           handlerVars>>

notWidget == <<viewVars, convVars, engVars, mainVars, handlerVars>>

\* the initial state of everything but the converters' cache
InitOthers ==
    /\ InitIndexVars /\ InitViewVars /\ InitEngVars /\ InitMainVars
    /\ InitWidgetVars
    /\ InitPdfVars /\ InitPptVars /\ InitBrowserVars

-----------------------------------------------------------------------------
(* Specification of SearchIndex: any sequence of its public operations *)

AddFile ==
    /\ \E p \in Paths, content \in Contents, info \in FileInfos :
           add_file(p, content, info)
    /\ UNCHANGED notIdx

RemoveFile ==
    /\ \E p \in Paths : remove_file(p)
    /\ UNCHANGED notIdx

Search ==
    /\ \E query \in Queries, max_results \in 0..MaxMaxResults :
           search(query, max_results)
    /\ UNCHANGED notIdx

GetStatistics == get_statistics /\ UNCHANGED notIdx

InitIndex ==
    /\ InitOthers /\ InitConvVars
    /\ available = [b \in Backends |-> TRUE]

NextIndex == AddFile \/ RemoveFile \/ Search \/ GetStatistics

SpecIndex == InitIndex /\ [][NextIndex]_vars

-----------------------------------------------------------------------------
(* Specification of the ContentViewer: the user selects files while the    *)
(* load workers and the GUI event loop run                                 *)

LoadFile == (\E f \in ViewFiles : load_file(f)) /\ UNCHANGED notView

LoadFileResume == load_file_resume /\ UNCHANGED notView

WorkerRun == (\E w \in DOMAIN workers : worker_run(w)) /\ UNCHANGED notView

WorkerExit == (\E w \in DOMAIN workers : worker_exit(w)) /\ UNCHANGED notView

DeliverEvent == deliver_event /\ UNCHANGED notView

PageChanged ==
    /\ \E page_num \in 1..MaxPageCount : on_page_changed(page_num)
    /\ UNCHANGED notView

\* a file of the directory is added to the search index
AddFileToIndex ==
    /\ \E f \in ViewFiles \cap Range(DirFiles) : add_file_to_index(f)
    /\ UNCHANGED notWidget

InitViewer ==
    /\ InitOthers /\ InitConvVars
    /\ available = [b \in Backends |-> TRUE]

NextViewer ==
    \/ LoadFile \/ LoadFileResume \/ WorkerRun \/ WorkerExit \/ DeliverEvent
    \/ PageChanged \/ AddFileToIndex

SpecViewer == InitViewer /\ [][NextViewer]_vars

-----------------------------------------------------------------------------
(* Specification of the conversion backends: conversions are requested     *)
(* while files are saved and days pass                                     *)

\* the inputs a call does not read are not varied: the glob order and the
\* locked files matter on a miss only, the size only when a file is left
ConvertToPdf ==
    /\ \E b \in Backends, f \in ConvFiles :
          LET miss == /\ available[b]
                      /\ src[f].exists
                      /\ ~CacheHit(cache[b],
                                   _get_cache_key(f, src[f].mtime))
          IN \E order \in IF miss THEN Orderings(DOMAIN cache[b])
                          ELSE {<<>>},
                locked \in IF miss
                           THEN {{}} \cup {{k} : k \in DOMAIN cache[b]}
                           ELSE {{}},
                outcome \in IF miss THEN EngineOutcomes ELSE {"ok"} :
                 \E size \in IF outcome \in Leaves THEN OutputSizes ELSE {0} :
                     convert_to_pdf(b, f, order, locked, outcome, size)
    /\ UNCHANGED notConv

TouchFile ==
    (\E f \in ConvFiles : touch_file(f)) /\ UNCHANGED notConv

Tick == tick /\ UNCHANGED notConv

InitConv == InitOthers /\ InitConvVars

NextConv == ConvertToPdf \/ TouchFile \/ Tick

SpecConv == InitConv /\ [][NextConv]_vars

-----------------------------------------------------------------------------
(* Specification of the threads inside the converters *)

GetConverter ==
    (\E t \in Threads, b \in Backends : get_converter(t, b))
        /\ UNCHANGED notEng

ConstructGlobal == (\E t \in Threads : construct_global(t)) /\ UNCHANGED notEng

Acquire ==
    (\E t \in Threads : acquire(t)) /\ UNCHANGED <<global_converter, notEng>>

CacheCheck == (\E t \in Threads : cache_check(t)) /\ UNCHANGED notEng

EngineWrites == (\E t \in Threads : engine_writes(t)) /\ UNCHANGED notEng

LockedOp ==
    (\E t \in Threads, raises \in BOOLEAN : locked_op(t, raises))
        /\ UNCHANGED notEng

FinallyClose ==
    (\E t \in Threads, raises \in BOOLEAN : finally_close(t, raises))
        /\ UNCHANGED notEng

FinallyQuit ==
    (\E t \in Threads, raises \in BOOLEAN : finally_quit(t, raises))
        /\ UNCHANGED notEng

ReturnToCaller == (\E t \in Threads : return_to_caller(t)) /\ UNCHANGED notEng

InitEngine ==
    /\ InitOthers /\ InitConvVars
    /\ available = [b \in Backends |-> TRUE]

NextEngine ==
    \/ GetConverter \/ ConstructGlobal \/ CacheCheck \/ Acquire
    \/ EngineWrites \/ LockedOp
    \/ FinallyClose \/ FinallyQuit \/ ReturnToCaller

SpecEngine == InitEngine /\ [][NextEngine]_vars

-----------------------------------------------------------------------------
(* Specification of the console bootstrap *)

MainStart ==
    (\E deps_ok, auth_ok \in BOOLEAN : main_start(deps_ok, auth_ok))
        /\ UNCHANGED notMain

LoginAttempt ==
    (\E entry \in LoginEntries : login_attempt(entry)) /\ UNCHANGED notMain

MenuChoice ==
    (\E choice \in MenuChoices : menu_choice(choice)) /\ UNCHANGED notMain

InitMain ==
    /\ InitOthers /\ InitConvVars
    /\ available = [b \in Backends |-> TRUE]

NextMain == MainStart \/ LoginAttempt \/ MenuChoice

SpecMain == InitMain /\ [][NextMain]_vars

-----------------------------------------------------------------------------
(* Specification of the SearchWidget: directories are chosen and indexing  *)
(* is requested while the indexing workers and the GUI event loop run      *)

SetDirectory ==
    /\ \E d \in Directories : set_directory(d)
    /\ UNCHANGED notWidget

RemoveDirectory == remove_directory /\ UNCHANGED notWidget

StartIndexing == start_indexing /\ UNCHANGED notWidget

WorkerBegin ==
    /\ \E w \in DOMAIN iworkers : worker_begin(w)
    /\ UNCHANGED notWidget

WorkerFile ==
    /\ \E w \in DOMAIN iworkers : worker_file(w)
    /\ UNCHANGED notWidget

WorkerAdded ==
    /\ \E w \in DOMAIN iworkers : worker_added(w)
    /\ UNCHANGED notWidget

WorkerEmit ==
    /\ \E w \in DOMAIN iworkers : worker_emit(w)
    /\ UNCHANGED notWidget

WorkerFinish ==
    /\ \E w \in DOMAIN iworkers : worker_finish(w)
    /\ UNCHANGED notWidget

DeliverWidgetEvent == deliver_wevent /\ UNCHANGED notWidget

\* a search of the contents, asked for while indexing goes on
PerformContentSearch ==
    /\ \E cq \in ContentQueries \ {""} : perform_search("", cq)
    /\ UNCHANGED notWidget

PerformSearch ==
    /\ \E fq \in FilenameQueries, cq \in ContentQueries :
           perform_search(fq, cq)
    /\ UNCHANGED notWidget

PerformSearchResume == perform_search_resume /\ UNCHANGED notWidget

SortChanged ==
    /\ \E sort_text \in SortInputs : on_sort_changed(sort_text)
    /\ UNCHANGED notWidget

ClearIndex == clear_index /\ UNCHANGED notWidget

ClearIndexResume == clear_index_resume /\ UNCHANGED notWidget

InitWidget ==
    /\ InitOthers /\ InitConvVars
    /\ available = [b \in Backends |-> TRUE]

NextWidget ==
    \/ SetDirectory \/ RemoveDirectory \/ StartIndexing
    \/ WorkerBegin \/ WorkerFile \/ WorkerAdded \/ WorkerEmit \/ WorkerFinish
    \/ DeliverWidgetEvent \/ AddFileToIndex

SpecWidget == InitWidget /\ [][NextWidget]_vars

-----------------------------------------------------------------------------
(* Specification of the first indexing pass of a SearchWidget: while the   *)
(* worker runs, the index is cleared and the contents are searched         *)

StartFirstPass == iworkers = <<>> /\ StartIndexing

InitFirstPass ==
    /\ InitOthers /\ InitConvVars
    /\ available = [b \in Backends |-> TRUE]

NextFirstPass ==
    \/ SetDirectory \/ RemoveDirectory \/ StartFirstPass
    \/ WorkerBegin \/ WorkerFile \/ WorkerAdded \/ WorkerEmit \/ WorkerFinish
    \/ DeliverWidgetEvent
    \/ PerformContentSearch \/ PerformSearchResume
    \/ ClearIndex \/ ClearIndexResume

SpecFirstPass == InitFirstPass /\ [][NextFirstPass]_vars

-----------------------------------------------------------------------------
(* SearchIndexer.stop_indexing_process: indexing passes are started and    *)
(* the stop flag is set at any moment of them                              *)

StopIndexingProcess == stop_indexing_process /\ UNCHANGED notWidget

InitStop ==
    /\ InitOthers /\ InitConvVars
    /\ available = [b \in Backends |-> TRUE]

NextStop ==
    \/ SetDirectory \/ StartIndexing \/ StopIndexingProcess
    \/ WorkerBegin \/ WorkerFile \/ WorkerAdded \/ WorkerEmit \/ WorkerFinish
    \/ DeliverWidgetEvent

SpecStop == InitStop /\ [][NextStop]_vars

-----------------------------------------------------------------------------
(* Specification of searching in the SearchWidget: files are added to the  *)
(* index one by one, and searches and sort orders are asked for            *)

InitSearch ==
    /\ InitOthers /\ InitConvVars
    /\ available = [b \in Backends |-> TRUE]

NextSearch ==
    \/ SetDirectory \/ RemoveDirectory \/ AddFileToIndex
    \/ PerformSearch \/ PerformSearchResume \/ SortChanged
    \/ ClearIndex \/ ClearIndexResume

SpecSearch == InitSearch /\ [][NextSearch]_vars

-----------------------------------------------------------------------------
(* The selection of a search result in the SearchWidget: results are       *)
(* clicked between searches, edits of the search text and clear_index      *)

\* the texts typed into the search field
SearchTexts == {"b", "ab"}

MaxShown == 4

ResultSelected ==
    /\ \E i \in 1..MaxShown : on_result_selected(i)
    /\ UNCHANGED notWidget

SearchTextChanged ==
    /\ \E text \in SearchTexts : on_search_text_changed(text)
    /\ UNCHANGED notWidget

PerformFilenameSearch ==
    /\ \E fq \in FilenameQueries : perform_search(fq, "")
    /\ UNCHANGED notWidget

InitSelect ==
    /\ InitOthers /\ InitConvVars
    /\ available = [b \in Backends |-> TRUE]

NextSelect ==
    \/ SetDirectory \/ RemoveDirectory
    \/ PerformFilenameSearch \/ PerformSearchResume
    \/ ResultSelected \/ SearchTextChanged
    \/ ClearIndex \/ ClearIndexResume

SpecSelect == InitSelect /\ [][NextSelect]_vars

-----------------------------------------------------------------------------
(* SearchIndexer: one indexing pass, add_file_to_index and
   update_file_in_index for every file of the directory *)

\* the files handed to add_file_to_index and update_file_in_index: one that
\* is indexed, the workbook and the presentation
IndexerInputs == {"b.txt", "s.xlsx", "p.pptx"}

AddAnyFileToIndex ==
    /\ \E f \in IndexerInputs : add_file_to_index(f)
    /\ UNCHANGED notWidget

UpdateFileInIndex ==
    /\ \E f \in IndexerInputs : update_file_in_index(f)
    /\ UNCHANGED notWidget

InitIndexer ==
    /\ InitOthers /\ InitConvVars
    /\ available = [b \in Backends |-> TRUE]

NextIndexer ==
    \/ SetDirectory \/ RemoveDirectory \/ StartFirstPass
    \/ WorkerBegin \/ WorkerFile \/ WorkerAdded \/ WorkerEmit \/ WorkerFinish
    \/ DeliverWidgetEvent \/ AddAnyFileToIndex \/ UpdateFileInIndex

SpecIndexer == InitIndexer /\ [][NextIndexer]_vars

-----------------------------------------------------------------------------
(* PdfHandler *)

notPdf == <<idxVars, viewVars, convVars, engVars, mainVars, fmVars,
            widgetVars, pptVars, browserVars>>

RenderPageToImage ==
    /\ \E f \in PdfFiles, n \in PageNums, z \in Zooms :
           call_render_page_to_image(f, n, z)
    /\ UNCHANGED notPdf

GetPagePreviewInfo ==
    /\ \E f \in PdfFiles, n \in PageNums : call_get_page_preview_info(f, n)
    /\ UNCHANGED notPdf

InitPdf ==
    /\ InitOthers /\ InitConvVars
    /\ available = [b \in Backends |-> TRUE]

NextPdf == RenderPageToImage \/ GetPagePreviewInfo

SpecPdf == InitPdf /\ [][NextPdf]_vars


-----------------------------------------------------------------------------
(* PowerPointHandler *)

notPpt == <<idxVars, viewVars, convVars, engVars, mainVars, fmVars,
            widgetVars, pdfVars, browserVars>>

OpenPersistentConnection ==
    /\ \E f \in PptFiles, platform_ok, open_ok, close_ok, quit_ok \in BOOLEAN :
           open_persistent_connection(f, platform_ok, open_ok, close_ok,
                                      quit_ok)
    /\ UNCHANGED notPpt

ClosePersistentConnection ==
    /\ \E close_ok, quit_ok \in BOOLEAN :
           close_persistent_connection(close_ok, quit_ok)
    /\ UNCHANGED notPpt

RenderSlideFast ==
    /\ \E n \in SlideNumbers, export_ok \in BOOLEAN :
           render_slide_fast(n, export_ok)
    /\ UNCHANGED notPpt

InitPpt ==
    /\ InitOthers /\ InitConvVars
    /\ available = [b \in Backends |-> TRUE]

NextPpt ==
    OpenPersistentConnection \/ ClosePersistentConnection \/ RenderSlideFast

SpecPpt == InitPpt /\ [][NextPpt]_vars

-----------------------------------------------------------------------------
(* FileBrowser *)

notBrowser == <<idxVars, viewVars, convVars, engVars, mainVars, fmVars,
                widgetVars, pdfVars, pptVars>>

SetRootPath ==
    /\ \E p \in BrowserPaths : set_root_path(p)
    /\ UNCHANGED notBrowser

RefreshView == refresh_view /\ UNCHANGED notBrowser

DirectoryChanged ==
    /\ \E p \in BrowserPaths : on_directory_changed(p)
    /\ UNCHANGED notBrowser

RemovePath ==
    /\ \E p \in BrowserPaths : remove_path(p)
    /\ UNCHANGED notBrowser

CreatePath ==
    /\ \E p \in BrowserPaths : create_path(p)
    /\ UNCHANGED notBrowser

InitBrowser ==
    /\ InitOthers /\ InitConvVars
    /\ available = [b \in Backends |-> TRUE]

NextBrowser ==
    SetRootPath \/ RefreshView \/ DirectoryChanged \/ RemovePath \/ CreatePath

SpecBrowser == InitBrowser /\ [][NextBrowser]_vars
-----------------------------------------------------------------------------
(* Properties of SearchIndex *)

\* the record of a path, as a set of at most one record
RecordOf(fi, p) == IF p \in DOMAIN fi THEN {fi[p]} ELSE {}

\* the tokens whose postings set holds p
PostingTokens(idx, p) == {t \in DOMAIN idx : p \in idx[t]}

\* the tokens of a text, computed afresh
TokensOfText(text) == Range(_tokenize(text))

SearchRan == lastCall.op = "search" /\ QueryTokenTable[lastCall.query] # <<>>

SearchedAnd == AndSet(index, QueryTokenTable[lastCall.query])

SearchedOrOnly == OrSet(index, QueryTokenTable[lastCall.query]) \ SearchedAnd

ReturnedFiles == {ret[i].file_path : i \in DOMAIN ret}

\* C4: after add_file(p, content, info) on a path that was already indexed,
\* the tokens whose postings hold p are exactly the tokens of
\* "<filename> <content>" of this call, and the stored record is this call's.
C4_ReAddLeavesOnlySecondContent ==
    (lastCall.op = "add_file" /\ lastCall.previous # None) =>
        LET p == lastCall.file_path
        IN /\ PostingTokens(index, p)
                  = TokensOfText(Basename(p) \o " " \o lastCall.content)
           /\ p \in DOMAIN file_info
           /\ file_info[p].content_preview = lastCall.content
           /\ file_info[p].file_type = lastCall.info.file_type
           /\ file_info[p].file_size_mb = lastCall.info.file_size_mb

\* a second add_file with different content, whose first content had a token
\* that the second content and the filename do not have
C4_Witness ==
    /\ lastCall.op = "add_file"
    /\ lastCall.previous # None
    /\ lastCall.previous # lastCall.content
    /\ \E t \in TokensOfText(lastCall.previous) :
           t \notin PostingTokens(index, lastCall.file_path)

\* C5: no token of the index map has an empty postings set.
C5_NoEmptyPostings == \A t \in DOMAIN index : index[t] # {}

\* a removal that deleted a token of the removed file while other tokens stay
C5_Witness ==
    /\ lastCall.op = "remove_file"
    /\ lastCall.previous # None
    /\ \E t \in TokensOfText(lastCall.previous) : t \notin DOMAIN index
    /\ DOMAIN index # {}

\* C6: a remove_file(p) step leaves p without record and without postings,
\* changes the record and the postings of no other path, and changes nothing
\* at all when p was not indexed.
C6_RemoveFrame ==
    [][lastCall'.op = "remove_file" =>
          LET p == lastCall'.file_path
          IN /\ p \notin DOMAIN file_info'
             /\ PostingTokens(index', p) = {}
             /\ \A q \in Paths \ {p} :
                    /\ RecordOf(file_info', q) = RecordOf(file_info, q)
                    /\ PostingTokens(index', q) = PostingTokens(index, q)
             /\ (p \notin DOMAIN file_info =>
                    index' = index /\ file_info' = file_info)]_idxVars

\* an indexed path was removed while another path stays indexed
C6_Witness ==
    /\ lastCall.op = "remove_file"
    /\ lastCall.previous # None
    /\ DOMAIN file_info # {}

\* C7 as claimed: in the list search returns, every file of the AND set is
\* ahead of every file that is in the list only through the OR broadening.
C7_AndAheadOfOrOnly ==
    SearchRan =>
        \A i, j \in DOMAIN ret :
            (ret[i].file_path \in SearchedAnd
                 /\ ret[j].file_path \in SearchedOrOnly) => i < j

\* C7 amended: the returned list is in non-increasing order of relevance
\* score, and an OR-only file is ahead of an AND file only when its score
\* is strictly greater (AND files lead among equal scores).
C7_AndAheadUnlessOutscored ==
    SearchRan =>
        /\ \A i, j \in DOMAIN ret :
               i < j => ret[i].relevance_score >= ret[j].relevance_score
        /\ \A i, j \in DOMAIN ret :
               (i < j /\ ret[i].file_path \in SearchedOrOnly
                      /\ ret[j].file_path \in SearchedAnd)
                   => ret[i].relevance_score > ret[j].relevance_score

\* a returned list holding an AND file and an OR-only file of equal score
C7_Witness ==
    /\ SearchRan
    /\ \E i, j \in DOMAIN ret :
           /\ ret[i].file_path \in SearchedAnd
           /\ ret[j].file_path \in SearchedOrOnly
           /\ ret[i].relevance_score = ret[j].relevance_score

\* the files matching some but not every query token
MatchedSomeOnly ==
    UNION Range(TokenResults(index, QueryTokenTable[lastCall.query]))
        \ SearchedAnd

\* C8: when the AND set has fewer than max_results / 2 entries the returned
\* files are the AND set and the files matching some token only, as far as
\* max_results allows; otherwise only files of the AND set are returned.
C8_BroadensBelowHalf ==
    SearchRan =>
        LET below == 2 * Cardinality(SearchedAnd) < lastCall.max_results
            broad == SearchedAnd \cup MatchedSomeOnly
        IN /\ below =>
                  IF Cardinality(broad) <= lastCall.max_results
                  THEN ReturnedFiles = broad
                  ELSE /\ Cardinality(ReturnedFiles) = lastCall.max_results
                       /\ SearchedAnd \subseteq ReturnedFiles
           /\ ~below => ReturnedFiles \subseteq SearchedAnd

\* the score the claim C9 describes, times ScoreScale
RECURSIVE ClaimedScoreFrom(_, _, _)
ClaimedScoreFrom(p, query_tokens, i) ==
    IF i > Len(query_tokens) THEN 0
    ELSE LET token == query_tokens[i]
             name == IF Contains(Lower(Basename(p)), token)
                     THEN 2 * ScoreScale ELSE 0
             rarity == IF token \in DOMAIN index /\ p \in index[token]
                       THEN ScoreScale \div Cardinality(index[token]) ELSE 0
         IN name + rarity + ClaimedScoreFrom(p, query_tokens, i + 1)

\* C9: the score of a returned file is the sum over the query tokens of 2.0
\* if the token occurs in the file's name, plus 1 / (postings count) only if
\* the file itself is in the token's postings set.
C9_RarityOnlyForOwnTokens ==
    SearchRan =>
        \A i \in DOMAIN ret :
            ret[i].relevance_score
                = ClaimedScoreFrom(ret[i].file_path,
                                   QueryTokenTable[lastCall.query], 1)

-----------------------------------------------------------------------------
(* Properties of the ContentViewer *)

RunningWorkers == {w \in DOMAIN workers : workers[w].state # "finished"}

\* C1: the viewer acts only on the notification of the latest load_file
\* call (a notification of a superseded load is never acted on), and every
\* superseded worker has been asked to stop.
C1_OnlyLatestLoadActedOn ==
    /\ \A a \in acted : a.call = a.latest
    /\ \A w \in DOMAIN workers : w # load_worker => workers[w].quit_requested

\* C2: at most one FileLoadWorker of the viewer is running at any moment.
C2_AtMostOneWorkerRunning == Cardinality(RunningWorkers) <= 1

\* load_file was called while the previous worker ran, waited for it, and
\* the new worker is now running
C2_Witness ==
    /\ "load_worker.wait" \in guiWork
    /\ load_worker >= 2
    /\ workers[load_worker].state = "running"
    /\ workers[load_worker - 1].quit_requested

\* C3: the GUI thread never waits for a load worker and never does file
\* extraction or rendering itself.
C3_EventLoopNeverBlocks == guiPc = "idle" /\ guiWork = {}


\* the file's descriptor reports supported: false
Unsupported(file_path) == ~FileTable[file_path].supported

\* C19: for a file whose descriptor reports supported: false no handler
\* preview or text-extraction operation is invoked, the load worker's one
\* notification for it is load_error, and the indexer neither extracts its
\* text nor indexes it.
C19_UnsupportedFileNeverHandled ==
    /\ \A c \in handler_calls : ~Unsupported(c.file_path)
    /\ \A i \in DOMAIN events :
           Unsupported(workers[events[i].sender].file_path)
               => events[i].signal = "load_error"
    /\ \A p \in indexed_paths \cup DOMAIN file_info : ~Unsupported(p)

WorkerSignals == {"load_completed", "load_error"}

\* the notifications of worker w: those waiting in the event queue and
\* those the viewer has acted on
Notifications(w) ==
    Cardinality({i \in DOMAIN events : events[i].sender = w})
        + Cardinality({a \in acted : /\ a.call = workers[w].call
                                     /\ a.signal \in WorkerSignals})

\* C29: a FileLoadWorker has emitted nothing while run() is at work and
\* exactly one notification, load_completed or load_error, once run() has
\* passed its emit; an exception of a handler ends in load_error, not in the
\* thread.
C29_ExactlyOneNotification ==
    /\ \A w \in DOMAIN workers :
           Notifications(w) = IF workers[w].state = "running" THEN 0 ELSE 1
    /\ \A i \in DOMAIN events : events[i].signal \in WorkerSignals

\* the worker for bad.docx, whose handler raised, has finished and its
\* load_error was acted on; a later worker has emitted load_completed
C29_Witness ==
    \E w1, w2 \in DOMAIN workers :
        /\ workers[w1].file_path = "bad.docx"
        /\ workers[w1].state = "finished"
        /\ \E a \in acted : a.call = workers[w1].call /\ a.signal = "load_error"
        /\ workers[w2].state = "emitted"
        /\ \E i \in DOMAIN events :
               events[i].sender = w2 /\ events[i].signal = "load_completed"

\* the GUI thread takes the next queued notification
DeliverStep == events # <<>> /\ events' = Tail(events)

\* the viewer is on the error surface with the message, controls hidden
OnErrorSurface(message) ==
    /\ content_stack' = "error_page"
    /\ error_page' = message
    /\ ~control_frame'

\* C30: a failure of a load leaves the viewer on the error surface with the
\* failure's message and the controls hidden: a file that is not found, a
\* load_error of the worker (unsupported type, exception of a handler), and
\* a page of a PDF that cannot be rendered when its load_completed is
\* handled.
C30_FailureShowsErrorSurface ==
    [][/\ (calls' = calls + 1 /\ \E f \in ViewFiles :
               ~FileTable[f].exists /\ load_file(f))
          => OnErrorSurface("not found")
       /\ (DeliverStep /\ Head(events).signal = "load_error")
          => OnErrorSurface(Head(events).message)
       /\ (/\ DeliverStep
           /\ Head(events).signal = "load_completed"
           /\ Head(events).info.file_type = "pdf"
           /\ ~FileTable[current_file_path].renders)
          => content_stack' = "error_page" /\ ~control_frame']_vars


\* the step is on_file_loaded for a PDF whose first page is rendered
PdfLoadedStep ==
    /\ DeliverStep
    /\ Head(events).signal = "load_completed"
    /\ Head(events).info.file_type = "pdf"
    /\ original_label' = "pixmap"

\* C38: when a PDF has finished loading, the value of the page selector is
\* the number of the page rendered, page 1, whatever was displayed before.
C38_PageSelectorShowsRenderedPage ==
    [][PdfLoadedStep => /\ rendered_page' = 1
                        /\ page_spin'.value = rendered_page']_vars

-----------------------------------------------------------------------------
(* Properties of the conversion backends *)

\* the step is a convert_to_pdf call
ConvertStep == engineCalls' # engineCalls \/ convCall' # convCall

\* C10: for each backend, when convert_to_pdf is called again on the file of
\* the previous call, the file not modified in between, and the cache holds
\* the file's entry, the call returns the path the previous call returned,
\* invokes no engine, runs no cleanup and leaves every cache file as it was.
C10_RepeatCallReturnsSamePath ==
    [][(/\ convCall.op = "convert_to_pdf"
        /\ convCall'.op = "convert_to_pdf"
        /\ ConvertStep
        /\ convCall'.backend = convCall.backend
        /\ convCall'.file_path = convCall.file_path
        /\ convCall'.mtime = convCall.mtime
        /\ available[convCall.backend]
        /\ src[convCall.file_path].exists
        /\ CacheHit(cache[convCall.backend],
                    _get_cache_key(convCall.file_path, convCall.mtime)))
       => (/\ convCall'.result = convCall.result
           /\ convCall'.result # NoPath
           /\ ~convCall'.engine
           /\ ~convCall'.cleanup
           /\ cache' = cache)]_vars

\* the cache key of the file of the last convert_to_pdf call
LastKey == _get_cache_key(convCall.file_path, convCall.mtime)

\* C11: whenever convert_to_pdf has invoked the engine and returned the absent
\* value, no file exists at the cache path of that conversion.
C11_FailedConversionLeavesNoFile ==
    (/\ convCall.op = "convert_to_pdf"
     /\ convCall.engine
     /\ convCall.result = NoPath)
        => ~CacheHit(cache[convCall.backend], LastKey)

\* the step is a convert_to_pdf call that missed the cache: it ran
\* _cleanup_cache and then the engine
CleanupStep == engineCalls' = engineCalls + 1

\* the cache files _cleanup_cache left behind in that step
LeftByCleanup == (DOMAIN cache'[convCall'.backend])
                     \ {_get_cache_key(convCall'.file_path, convCall'.mtime)}

C13_NoAgedEntryRemains ==
    [][CleanupStep
       => \A k \in LeftByCleanup \ convCall'.locked :
              ~(cache[convCall'.backend][k].mtime < now - CacheMaxAgeDays)]_vars


\* C34: every path convert_to_pdf returns, fresh or as a cache hit, names a
\* file that exists in the cache and is not empty.
C34_ReturnedPathIsNonEmptyFile ==
    (convCall.op = "convert_to_pdf" /\ convCall.result # NoPath)
        => /\ CacheHit(cache[convCall.backend], LastKey)
           /\ cache[convCall.backend][LastKey].size > 0

-----------------------------------------------------------------------------
(* Properties of the threads inside the converters *)

\* thread t is executing an engine or automation-host operation: one of the
\* steps of the with block, or Close / Quit of the finally block
InEngine(t) ==
    \/ thread[t].pc = "locked"
    \/ thread[t].pc = "finally_close" /\ thread[t].presentation
    \/ thread[t].pc = "finally_quit" /\ thread[t].ppt_app

\* C14: no two threads execute engine or automation-host operations of the
\* same backend at the same time.
C14_EngineAccessSerialized ==
    \A t1, t2 \in Threads :
        (t1 # t2 /\ InEngine(t1) /\ InEngine(t2))
            => thread[t1].conv[1] # thread[t2].conv[1]

\* C15: when a native-automation convert_to_pdf that created the application
\* object returns, Quit has been called on the application and, if a
\* presentation was opened, Close has been called on it; Quit is called also
\* when Close raised.
C15_ComObjectsReleased ==
    \A t \in Threads :
        (thread[t].pc = "returned" /\ thread[t].ppt_app)
            => /\ "Quit" \in thread[t].called
               /\ thread[t].presentation => "Close" \in thread[t].called

\* a call that opened a presentation, whose Close raised, has returned
C15_Witness ==
    \E t \in Threads :
        /\ thread[t].pc = "returned"
        /\ thread[t].ppt_app
        /\ thread[t].presentation
        /\ thread[t].presentation_open
        /\ "Quit" \in thread[t].called


\* thread t returns from convert_to_pdf with the cache path, as a cache hit
ReturnsCacheHit(t) ==
    /\ thread[t].pc = "cache_check"
    /\ thread'[t].pc = "returned"
    /\ thread'[t].cache_hit

\* C35: when two threads call convert_to_pdf for the same file, neither
\* returns as a cache hit the path of an entry the other's conversion is
\* still writing.
C35_NoHitOnEntryBeingWritten ==
    [][\A t \in Threads :
          ReturnsCacheHit(t)
              => \A u \in Threads \ {t} :
                    ~(Saving(thread[u])
                          /\ thread[u].conv[1] = thread[t].conv[1])]_vars

-----------------------------------------------------------------------------
(* Properties of the console bootstrap *)

\* the entries made at the username/password prompts
LoginTyped == SelectSeq(typed, LAMBDA e : e.at = "login")

\* the entries made at the menu prompt
MenuTyped == SelectSeq(typed, LAMBDA e : e.at = "menu")

\* C16: console_login prompts at most 3 times, and after 3 rejected
\* credential pairs in a row it has returned False: main has reported the
\* failure and the process has ended with status 1.
C16_LoginAttemptCap ==
    /\ Len(LoginTyped) <= 3
    /\ (Len(LoginTyped) = 3 /\ \A i \in 1..3 : LoginTyped[i].entry = "wrong")
           => /\ mainPc = "exited"
              /\ exit_status = 1
              /\ "login failed" \in printed
              /\ session = None

\* three rejected pairs have been entered
C16_Witness ==
    /\ Len(LoginTyped) = 3
    /\ \A i \in 1..3 : LoginTyped[i].entry = "wrong"
    /\ mainPc = "exited"

\* C17: a process that ended because a dependency was missing or the login
\* failed has status 1; one that ended by quit (0) at the menu has status 0.
C17_ExitStatus ==
    mainPc = "exited" =>
        /\ ("missing modules" \in printed \/ "login failed" \in printed)
               => exit_status = 1
        /\ (MenuTyped # <<>> /\ MenuTyped[Len(MenuTyped)].entry = "0")
               => exit_status = 0

\* a login at the third attempt followed by quit (0) at the menu
C17_Witness ==
    /\ mainPc = "exited"
    /\ MenuTyped # <<>>
    /\ MenuTyped[Len(MenuTyped)].entry = "0"
    /\ Len(LoginTyped) = 3

\* C18: after logout (9) at the menu the session is cleared and the process
\* has not ended.
C18_LogoutDoesNotExit ==
    (MenuTyped # <<>> /\ MenuTyped[Len(MenuTyped)].entry = "9")
        => /\ session = None
           /\ mainPc # "exited"
           /\ exit_status = None


\* an entry is made at the menu prompt
MenuStep == mainPc = "menu" /\ Len(typed') = Len(typed) + 1

\* C32: console_menu is left by logout (9), quit (0) or Ctrl-C only, and
\* then logout() has run and no session is active; the stub choices (1, 2,
\* 3, and 4 for an administrator), unrecognized input and 4 entered by a
\* user who is no administrator leave the session as it is and show the
\* menu again.
C32_MenuLeavesNoSession ==
    [][MenuStep
       => LET choice == typed'[Len(typed')].entry
              leaves == choice \in {"9", "0", "interrupt"}
              stub == choice \in {"1", "2", "3"}
                          \/ (choice = "4" /\ Accounts[session])
              refused == choice = "7" \/ (choice = "4" /\ ~Accounts[session])
          IN /\ leaves <=> mainPc' = "exited"
             /\ leaves => session' = None
             /\ (stub \/ refused) => session' = session /\ mainPc' = "menu"]_vars

\* an unrecognized entry was answered with the menu again, and Ctrl-C at
\* the menu has then ended the process without a session
C32_Witness ==
    /\ Len(MenuTyped) >= 2
    /\ MenuTyped[1].entry \in {"7", "4"}
    /\ MenuTyped[Len(MenuTyped)].entry = "interrupt"
    /\ mainPc = "exited"
    /\ session = None


\* C40: a login round with a blank username or password does not call
\* authenticate and uses up one of the 3 attempts: after three blank rounds
\* console_login has returned False, main has ended the process with
\* status 1, and authenticate was never called.
C40_BlankRoundsUseAttempts ==
    /\ \A i \in DOMAIN LoginTyped :
           LoginTyped[i].entry = "blank" => ~LoginTyped[i].authenticate
    /\ (Len(LoginTyped) = 3 /\ \A i \in 1..3 : LoginTyped[i].entry = "blank")
           => /\ mainPc = "exited"
              /\ exit_status = 1
              /\ "attempts exceeded" \in printed
              /\ session = None
    /\ \A n \in 0..2 :
           (/\ Len(LoginTyped) = n
            /\ \A i \in 1..n : LoginTyped[i].entry = "blank"
            /\ mainPc = "login")
               => attempt = n

\* three blank rounds have been made
C40_Witness ==
    /\ Len(LoginTyped) = 3
    /\ \A i \in 1..3 : LoginTyped[i].entry = "blank"
    /\ mainPc = "exited"

-----------------------------------------------------------------------------
(* Properties of the SearchWidget *)

\* the IndexingWorker threads that have not finished
RunningPasses == {w \in DOMAIN iworkers : iworkers[w].pc # "finished"}

\* this step is a start_indexing call that started no worker
RefusedStep ==
    /\ wCall' # wCall
    /\ wCall'.op = "start_indexing"
    /\ ~wCall'.started

\* this step is a start_indexing call made while a worker is running
RequestWhileRunning ==
    /\ wCall' # wCall
    /\ wCall'.op = "start_indexing"
    /\ RunningPasses # {}

\* C20 as stated: at most one IndexingWorker of the widget is running at
\* any moment, and a start_indexing call that starts no worker changes no
\* widget and no index state.
C20_RefusedRequestChangesNothing ==
    /\ [](Cardinality(RunningPasses) <= 1)
    /\ [][RefusedStep =>
              UNCHANGED <<widgetState, index, file_info, indexed_paths>>]_vars

\* C20 amended: at most one IndexingWorker of the widget is running at any
\* moment; a start_indexing call made while one is running starts none and
\* changes no index state, and it changes no widget state either unless the
\* directory is unset or gone, when it sets results_label to the request to
\* select a directory and changes nothing else.
C20_OnePassAtATime ==
    /\ [](Cardinality(RunningPasses) <= 1)
    /\ [][RequestWhileRunning =>
              /\ ~wCall'.started
              /\ UNCHANGED <<iworkers, indexing_worker, index, file_info,
                             indexed_paths, current_directory, index_button,
                             progress_bar, progress_label, index_stats_label>>
              /\ IF current_directory # "" /\ dir_exists
                 THEN UNCHANGED results_label
                 ELSE results_label'.text = "select a directory first"]_vars

\* a second worker was started after the first had finished, and the last
\* call, a start_indexing with the directory in place, was refused while
\* the second worker is inside its loop
C20_Witness ==
    /\ Len(iworkers) = 2
    /\ iworkers[1].pc = "finished"
    /\ iworkers[2].pc = "loop"
    /\ iworkers[2].i > 0
    /\ current_directory # "" /\ dir_exists
    /\ wCall.op = "start_indexing"
    /\ ~wCall.started

\* this step is perform_search running from processEvents() to its end
SearchStep == widgetPc.pc = "processEvents" /\ widgetPc'.pc = "idle"

\* C21: perform_search with a non-empty content query, when the index
\* contains no file, performs no index query, shows the dialog that asks
\* for indexing first and leaves the result list empty.
C21_EmptyIndexRefusesContentSearch ==
    [][SearchStep /\ widgetPc.content_query # "" /\ DOMAIN file_info = {}
           => /\ ~wCall'.queried
              /\ wCall'.dialog = "index first"
              /\ results_list' = <<>>]_vars

\* the files under the directory that is_supported_file and get_file_info
\* both report as supported
SupportedFiles ==
    {f \in Range(DirFiles) :
        is_supported_file(f) /\ InfoSupported(f, dir_exists)}

\* C22: with only a filename query, the search returns exactly the
\* supported files under the current directory whose name without the
\* extension contains, ignoring case, every comma-separated keyword of the
\* query, each with relevance 1.0 (the cap of 100 is above the number of
\* files).
C22_FilenameSearchAllKeywords ==
    [][/\ SearchStep
       /\ widgetPc.content_query = ""
       /\ current_directory # "" /\ dir_exists
       => LET keywords == Keywords(widgetPc.filename_query)
              found == Range(current_search_results')
          IN /\ {r.file_path : r \in found} =
                    {f \in SupportedFiles :
                        \A i \in DOMAIN keywords :
                            Contains(Lower(Stem(f)), keywords[i])}
             /\ \A r \in found : r.relevance_score = ScoreScale]_vars

SortStep == wCall' # wCall /\ wCall'.op = "on_sort_changed"

\* the result records of the file items of a results_list, in list order
ShownFiles(list) ==
    LET IsFile(item) == item.kind = "file"
        files == SelectSeq(list, IsFile)
    IN [i \in DOMAIN files |-> files[i].data]

OfType(results, file_type) ==
    LET Same(r) == r.file_type = file_type
    IN SelectSeq(results, Same)

PassPending(w) ==
    \/ iworkers[w].pc \notin {"emitted", "finished"}
    \/ \E i \in DOMAIN wevents :
           wevents[i].signal = "indexing_finished" /\ wevents[i].sender = w

\* C31: from the start of an indexing pass until its indexing_finished
\* notification is handled the index button is disabled and the progress
\* bar and label are visible, whatever other widget operations run.
C31_BusyWhilePassPending ==
    \A w \in DOMAIN iworkers :
        PassPending(w) => /\ ~index_button
                          /\ progress_bar.visible
                          /\ progress_label.visible


\* the files of the items results_list shows
ListedFiles ==
    {results_list[i].data.file_path :
        i \in {j \in DOMAIN results_list : results_list[j].kind = "file"}}

\* C39: whenever one of the open-in-viewer, open-folder and open-original
\* buttons is enabled, the selected file is one of the results the list
\* shows.
C39_EnabledButtonsHaveListedSelection ==
    open_buttons # {} => current_selected_file \in ListedFiles

-----------------------------------------------------------------------------
(* SearchIndexer: which files reach the index *)

\* the paths the index knows: posted under a token, described in file_info
\* or held in indexed_paths
IndexedFiles ==
    UNION {index[t] : t \in DOMAIN index}
        \cup DOMAIN file_info \cup indexed_paths

\* C24: whatever index_directory, add_file_to_index and
\* update_file_in_index are called with, no file of type excel is in the
\* index or in indexed_paths.
C24_NoWorkbookIndexed ==
    \A p \in IndexedFiles : FileTable[p].file_type # "excel"

\* a pass over the directory, which lists the workbook s.xlsx between two
\* files that are indexed, has ended with every other readable file indexed
C24_Witness ==
    /\ Len(iworkers) = 1 /\ iworkers[1].pc = "finished"
    /\ "s.xlsx" \in Range(DirFiles)
    /\ indexed_paths = {"b.txt", "a.pdf", "p.pptx"}
    /\ DOMAIN file_info = indexed_paths

\* C25: index_directory adds no file of type powerpoint to the index.
C25_NoPresentationIndexed ==
    \A p \in IndexedFiles : FileTable[p].file_type # "powerpoint"


\* no indexing pass is at work and clear_index is not under way
IndexerAtRest ==
    /\ widgetPc = Idle
    /\ \A w \in DOMAIN iworkers : iworkers[w].pc \in {"emitted", "finished"}

\* C33: when clear_index has run during an indexing pass and both have
\* finished, indexed_paths is the set of the files recorded in the index.
C33_PathsAgreeWithIndexAtRest ==
    (IndexerAtRest /\ iworkers # <<>>) => indexed_paths = DOMAIN file_info


\* the files of the running passes that index.add_file has recorded and
\* indexed_paths.add has yet to record
InFlight == {iworkers[w].files_to_index[iworkers[w].i + 1] :
                w \in {v \in DOMAIN iworkers : iworkers[v].pc = "added"}}

\* C36: the stop flag set by stop_indexing_process is never reset: from the
\* stop on, the files indexed remain indexed and no pass of index_directory
\* records a file in the index; indexed_paths gains at most the file a
\* running pass had put into the index just before the stop.
C36_StopFlagIsPermanent ==
    [][stop_indexing
       => /\ stop_indexing'
          /\ index' = index
          /\ file_info' = file_info
          /\ indexed_paths \subseteq indexed_paths'
          /\ indexed_paths' \subseteq indexed_paths \cup InFlight]_vars

\* a pass was stopped after it had indexed a file, and the pass started
\* after it has ended without indexing any of its files
C36_Witness ==
    /\ stop_indexing
    /\ Len(iworkers) = 2
    /\ iworkers[1].i > 0
    /\ iworkers[2].pc \in {"emitted", "finished"}
    /\ iworkers[2].files_to_index # <<>>
    /\ iworkers[2].i = 0
    /\ indexed_paths # {}

-----------------------------------------------------------------------------
(* PdfHandler *)

\* C26: for a page_num below 0 or at least the page count,
\* render_page_to_image returns None and get_page_preview_info returns an
\* error entry, and neither call raises; a file that cannot be opened has
\* page count 0 and makes neither call raise.
C26_OutOfRangePageIsAbsent ==
    pdf_call.op \in {"render_page_to_image", "get_page_preview_info"}
    => LET out_of_range == \/ pdf_call.page_num < 0
                           \/ pdf_call.page_num
                                  >= get_page_count(pdf_call.file_path)
       IN /\ ~PdfTable[pdf_call.file_path].opens => ~pdf_call.result.raised
          /\ out_of_range
             => /\ ~pdf_call.result.raised
                /\ pdf_call.result.kind =
                       IF pdf_call.op = "render_page_to_image"
                       THEN "None" ELSE "error"

\* get_page_preview_info was called on a readable file of two pages with
\* page_num 2, the first number past the last page
C26_Witness ==
    /\ pdf_call.op = "get_page_preview_info"
    /\ pdf_call.file_path = "two.pdf"
    /\ pdf_call.page_num = get_page_count("two.pdf")
    /\ pdf_call.result.kind = "error"

-----------------------------------------------------------------------------
(* PowerPointHandler *)

\* C27: between the calls of open_persistent_connection, render_slide_fast
\* and close_persistent_connection the handler holds no open presentation
\* and no running office application.
C27_NoSessionBetweenCalls ==
    /\ current_presentation = None
    /\ current_ppt_app = None


\* PowerPointHandler.is_connected
is_connected == current_presentation # None

\* C37: when close_persistent_connection has returned, is_connected() is
\* false and the handler holds no application and no presentation, also
\* when Close() or Quit() raised.
C37_CloseDropsReferences ==
    ppt_call.op = "close_persistent_connection"
        => /\ ~is_connected
           /\ current_ppt_app = None
           /\ current_presentation = None

-----------------------------------------------------------------------------
(* FileBrowser *)

\* C28: set_root_path with a path that does not exist shows the error text
\* in path_label and leaves current_path, the root of the tree and the
\* watched directories as they were.
C28_MissingRootPathRefused ==
    [][/\ browser_call' # browser_call
       /\ browser_call'.op = "set_root_path"
       /\ browser_call'.path \notin path_exists
       => /\ path_label'.text = "invalid path"
          /\ UNCHANGED <<current_path, root_index, watched>>]_vars

\* a folder is loaded and watched, and the label shows that the last
\* set_root_path was refused
C28_Witness ==
    /\ browser_call.op = "set_root_path"
    /\ browser_call.path \notin path_exists
    /\ path_label.text = "invalid path"
    /\ current_path # "" /\ root_index = current_path
    /\ watched = {current_path}

=============================================================================
